---- MODULE Spec2Model ----
(***************************************************************************)
(* State-machine model of the AgenticScript runtime: the message bus       *)
(* (runtime/message_bus.py), the tool registry (runtime/tool_registry.py), *)
(* the agent entity (core/interpreter.py, class AgentVal) and the          *)
(* tree-walking interpreter (class AgenticScriptInterpreter).              *)
(*                                                                         *)
(* Python objects are modelled by identity: a Message is a key of          *)
(* `messages`, a queue.PriorityQueue is a key of `qheap`.  Optional values *)
(* are tuples: None is <<>> and a present value v is <<v>>.                *)
(***************************************************************************)
EXTENDS Integers, Sequences, FiniteSets, TLC

VARIABLES
    max_queue_size,     \* MessageBus.max_queue_size (constructor argument)
    _queues,            \* MessageBus._queues: agent id -> queue object
    qheap,              \* queue object -> its heap list (PriorityQueue.queue)
    _subscribers,       \* MessageBus._subscribers: agent id -> list of callbacks
    _message_history,   \* MessageBus._message_history: list of Message objects
    messages,           \* the Message objects: message number -> fields
    _stats,             \* MessageBus._stats (MessageStats counters)
    _message_counter,   \* MessageBus._message_counter
    _delivery_times,    \* MessageBus._delivery_times
    _lock,              \* MessageBus._lock: the thread that holds it
    now,                \* the wall clock read by datetime.now()
    call,               \* the last completed API call: [op, arg, ret]
    pc,                 \* thread -> its position in the operation it runs
    loc,                \* thread -> the local variables of that operation
    obtained,           \* message -> times a queue get of receive_message took it
    discarded,          \* message -> times the drain of unregister_agent took it
    _running,           \* MessageBus._running
    _worker_thread,     \* MessageBus._worker_thread
    status,             \* AgentVal.status, per agent object
    assigned_tools,     \* AgentVal.assigned_tools: tool name -> tool instance
    message_queue,      \* AgentVal.message_queue (the backup log)
    agent_lock,         \* AgentVal._lock: the thread that holds it
    _processing_thread, \* AgentVal._processing_thread
    _stop_processing,   \* AgentVal._stop_processing (threading.Event)
    object_id,          \* id(self) of each agent object (its address)
    agent_attrs,        \* AgentVal.name, .model and .properties of each agent
    _tools,             \* ToolRegistry._tools: name -> ToolMetadata
    _instances,         \* ToolRegistry._instances: name -> tool instance
    reg_lock,           \* ToolRegistry._lock: the thread that holds it
    instance_counter,   \* tool objects constructed so far (object identity)
    call_count,         \* Tool.call_count, per tool instance
    interpreter         \* the AgenticScriptInterpreter object and its run

busvars == <<max_queue_size, _queues, qheap, _subscribers, _message_history,
             messages, _stats, _message_counter, _delivery_times>>

threadvars == <<_lock, pc, loc>>

workervars == <<_running, _worker_thread>>

agentvars == <<status, assigned_tools, message_queue, agent_lock,
               _processing_thread, _stop_processing, object_id,
               agent_attrs>>

regvars == <<_tools, _instances, reg_lock, instance_counter, call_count>>

hostvars == <<workervars, agentvars, regvars>>

vars == <<max_queue_size, _queues, qheap, _subscribers, _message_history,
          messages, _stats, _message_counter, _delivery_times, _lock, now,
          call, pc, loc, obtained, discarded, hostvars, interpreter>>

(***************************************************************************)
(* Bounds of the model.                                                    *)
(***************************************************************************)
MaxQueueSize == 2       \* largest max_queue_size a bus is built with
PrioQueueSize == 4      \* max_queue_size of the bus of the ordering runs
MaxMessages == 3        \* sends per run
PrioMessages == 5       \* sends per run of the ordering runs
MaxTime == 2            \* clock ticks per run
MaxSends == 1           \* sends per run of the agent runs
MaxToolUses == 1        \* tool objects, and executions per tool, of the agent runs
LockWorkers == 1        \* bus workers alive at once in the locking runs

(***************************************************************************)
(* Program constants.                                                      *)
(***************************************************************************)
LOW == 1
NORMAL == 2
HIGH == 3
URGENT == 4
DeliveryWindow == 100

Priorities == {LOW, NORMAL, HIGH, URGENT}

PENDING == "pending"
DELIVERED == "delivered"
FAILED == "failed"
TIMEOUT == "timeout"

None == <<>>
Some(v) == <<v>>

AgentIds == {"a1", "a2"}
Threads == {"t1", "t2", "t3"}    \* threads that call the API
Observed == {"t1"}               \* the API thread whose calls `call` records
Consumers == {"k1", "k2"}        \* agent background processor threads
Workers == {"w1", "w2"}          \* bus worker threads
AllThreads == Threads \cup Consumers \cup Workers
NoThread == "none"

(***************************************************************************)
(* Message.__lt__: a message is "less" (dequeued earlier) when its         *)
(* priority value is greater.                                              *)
(***************************************************************************)
LtReversed(msgs, m1, m2) ==
    msgs[m1].priority < msgs[m2].priority

Lt(msgs, m1, m2) ==
    msgs[m1].priority > msgs[m2].priority

(***************************************************************************)
(* heapq, as used by queue.PriorityQueue._put/_get.  Positions are         *)
(* 0-based as in the library; heap[p + 1] is the element at position p.    *)
(***************************************************************************)
RECURSIVE _siftdown(_, _, _, _, _)
_siftdown(msgs, heap, startpos, pos, newitem) ==
    IF pos > startpos
    THEN LET parentpos == (pos - 1) \div 2
             parent == heap[parentpos + 1]
         IN  IF Lt(msgs, newitem, parent)
             THEN _siftdown(msgs, [heap EXCEPT ![pos + 1] = parent],
                            startpos, parentpos, newitem)
             ELSE [heap EXCEPT ![pos + 1] = newitem]
    ELSE [heap EXCEPT ![pos + 1] = newitem]

RECURSIVE _siftup(_, _, _, _, _)
_siftup(msgs, heap, startpos, pos, newitem) ==
    LET endpos == Len(heap)
        childpos == 2 * pos + 1
    IN  IF childpos < endpos
        THEN LET rightpos == childpos + 1
                 c == IF rightpos < endpos
                         /\ ~Lt(msgs, heap[childpos + 1], heap[rightpos + 1])
                      THEN rightpos
                      ELSE childpos
             IN  _siftup(msgs, [heap EXCEPT ![pos + 1] = heap[c + 1]],
                         startpos, c, newitem)
        ELSE _siftdown(msgs, [heap EXCEPT ![pos + 1] = newitem],
                       startpos, pos, newitem)

heappush(msgs, heap, item) ==
    _siftdown(msgs, Append(heap, item), 0, Len(heap), item)

\* heappop on a non-empty heap: <<returned item, remaining heap>>
heappop(msgs, heap) ==
    LET lastelt == heap[Len(heap)]
        rest == SubSeq(heap, 1, Len(heap) - 1)
    IN  IF rest # <<>>
        THEN <<rest[1], _siftup(msgs, [rest EXCEPT ![1] = lastelt], 0, 0, lastelt)>>
        ELSE <<lastelt, rest>>

(***************************************************************************)
(* Message ids: f"msg_{counter:06d}".  The id is the tuple of the decimal  *)
(* digits, zero-padded to six; ids are compared as Python compares         *)
(* strings, character by character.                                        *)
(***************************************************************************)
RECURSIVE Digits(_)
Digits(n) ==
    IF n < 10 THEN <<n>> ELSE Append(Digits(n \div 10), n % 10)

RECURSIVE ZeroPad(_, _)
ZeroPad(ds, width) ==
    IF Len(ds) >= width THEN ds ELSE ZeroPad(<<0>> \o ds, width)

IdWidth == 6

message_id(counter) == ZeroPad(Digits(counter), IdWidth)

RECURSIVE StrLess(_, _)
StrLess(s1, s2) ==
    IF s2 = <<>> THEN FALSE
    ELSE IF s1 = <<>> THEN TRUE
    ELSE IF s1[1] # s2[1] THEN s1[1] < s2[1]
    ELSE StrLess(Tail(s1), Tail(s2))

(***************************************************************************)
(* Object identity of queues.  A queue object lives while _queues or a     *)
(* local variable of a running receive_message refers to it.               *)
(***************************************************************************)
QueueRefs(queuesMap, locals) ==
    {queuesMap[a] : a \in DOMAIN queuesMap}
        \cup {locals[t].agent_queue[1] :
                 t \in {u \in DOMAIN locals : locals[u].agent_queue # None}}

Collect(heaps, queuesMap, locals) ==
    [q \in DOMAIN heaps \cap QueueRefs(queuesMap, locals) |-> heaps[q]]

NewQueue == CHOOSE q \in 1..(Cardinality(DOMAIN qheap) + 1) : q \notin DOMAIN qheap

NoLocals ==
    [agent_id |-> None, agent_queue |-> None, message |-> None,
     self |-> None, op |-> None, tool_name |-> None, args_ok |-> None,
     agent_name |-> None, old_status |-> None, entry_status |-> None,
     tool_instance |-> None, exc |-> None, result |-> None,
     current_time |-> None, entry_meta |-> None, sender |-> None,
     recipients |-> <<>>, index |-> 0, message_ids |-> <<>>]

qsize(q) == Len(qheap[q])

FullOffByOne(q) == max_queue_size > 0 /\ qsize(q) > max_queue_size

\* queue.Queue.put_nowait raises Full when maxsize > 0 and qsize() >= maxsize
Full(q) == max_queue_size > 0 /\ qsize(q) >= max_queue_size

\* the call returned ret
Called(op, arg, ret) ==
    call' = [op |-> op, arg |-> arg, ret |-> ret, exc |-> None]

\* the call raised the exception exc
Raised(op, arg, exc) ==
    call' = [op |-> op, arg |-> arg, ret |-> None, exc |-> Some(exc)]

(***************************************************************************)
(* MessageBus.register_agent                                               *)
(***************************************************************************)
\* the body of register_agent for an id that is not registered
Registering(agent_id) ==
    /\ _queues' = _queues @@ (agent_id :> NewQueue)
    /\ qheap' = qheap @@ (NewQueue :> <<>>)
    /\ _subscribers' = _subscribers @@ (agent_id :> <<>>)

register_agent(agent_id) ==
    /\ _lock = NoThread
    /\ IF agent_id \in DOMAIN _queues
       THEN /\ Called("register_agent", agent_id, FALSE)
            /\ UNCHANGED <<_queues, qheap, _subscribers>>
       ELSE /\ Registering(agent_id)
            /\ Called("register_agent", agent_id, TRUE)
    /\ UNCHANGED <<max_queue_size, _message_history, messages, _stats,
                   _message_counter, _delivery_times, _lock, now, interpreter, pc, loc,
                   obtained, discarded>>
    /\ UNCHANGED hostvars

(***************************************************************************)
(* MessageBus.unregister_agent, run without interruption: the queue is     *)
(* drained by get_nowait until empty, then the two map entries are deleted.*)
(***************************************************************************)
WithoutKept(f, k) == f

Without(f, k) == [x \in DOMAIN f \ {k} |-> f[x]]

RECURSIVE Drain(_, _, _)
Drain(msgs, heap, counts) ==
    IF heap = <<>> THEN counts
    ELSE LET got == heappop(msgs, heap)
         IN  Drain(msgs, got[2], [counts EXCEPT ![got[1]] = @ + 1])

\* the body of unregister_agent for a registered id; locals are the local
\* variables of the threads once the call has returned
Unregistering(agent_id, locals) ==
    LET q == _queues[agent_id]
    IN  /\ discarded' = Drain(messages, qheap[q], discarded)
        /\ _queues' = Without(_queues, agent_id)
        /\ qheap' = Collect([qheap EXCEPT ![q] = <<>>],
                            Without(_queues, agent_id), locals)
        /\ _subscribers' = Without(_subscribers, agent_id)

unregister_agent(agent_id) ==
    /\ _lock = NoThread
    /\ IF agent_id \notin DOMAIN _queues
       THEN /\ Called("unregister_agent", agent_id, FALSE)
            /\ UNCHANGED <<_queues, qheap, _subscribers, discarded>>
       ELSE /\ Unregistering(agent_id, loc)
            /\ Called("unregister_agent", agent_id, TRUE)
    /\ UNCHANGED <<max_queue_size, _message_history, messages, _stats,
                   _message_counter, _delivery_times, _lock, now, interpreter, pc, loc,
                   obtained>>
    /\ UNCHANGED hostvars

(***************************************************************************)
(* MessageBus.send_message (the whole body runs under the bus lock)        *)
(***************************************************************************)
CountSentForgotten(stats) == stats

CountSent(stats) == [stats EXCEPT !.total_sent = @ + 1]

NewMessage(n, sender, recipient, message_type, priority, timeout, response_to) ==
    [id |-> message_id(n), sender |-> sender, recipient |-> recipient,
     message_type |-> message_type, priority |-> priority, timeout |-> timeout,
     created_at |-> now, delivered_at |-> None, status |-> PENDING,
     response_to |-> response_to]

\* what send_message returns: None, or the id of the message it enqueued
SendResult(recipient) ==
    IF recipient \notin DOMAIN _queues \/ Full(_queues[recipient])
    THEN None
    ELSE message_id(_message_counter + 1)

\* the body of send_message: its effect on the bus
Sending(sender, recipient, message_type, priority, timeout, response_to) ==
    /\ IF recipient \notin DOMAIN _queues
       THEN UNCHANGED <<qheap, _message_history, messages, _stats,
                        _message_counter, obtained, discarded>>
       ELSE /\ _message_counter' = _message_counter + 1
            /\ LET n == _message_counter + 1
                   q == _queues[recipient]
                   message == NewMessage(n, sender, recipient, message_type,
                                         priority, timeout, response_to)
                   msgs == messages @@ (n :> message)
               IN  IF Full(q)
                   THEN UNCHANGED <<qheap, _message_history, messages,
                                    _stats, obtained, discarded>>
                   ELSE /\ messages' = msgs
                        /\ qheap' = [qheap EXCEPT ![q] = heappush(msgs, @, n)]
                        /\ _message_history' = Append(_message_history, n)
                        /\ _stats' = CountSent(_stats)
                        /\ obtained' = obtained @@ (n :> 0)
                        /\ discarded' = discarded @@ (n :> 0)
    /\ UNCHANGED <<max_queue_size, _queues, _subscribers, _delivery_times>>

send_message(sender, recipient, message_type, priority, timeout, response_to) ==
    /\ _lock = NoThread
    /\ Sending(sender, recipient, message_type, priority, timeout, response_to)
    /\ Called("send_message", recipient, SendResult(recipient))
    /\ UNCHANGED <<_lock, now, interpreter, pc, loc>>
    /\ UNCHANGED hostvars

(***************************************************************************)
(* MessageBus.receive_message, run without interruption.  An empty queue   *)
(* gives None with or without a timeout (queue.Empty).                     *)
(***************************************************************************)
LastN(seq, n) ==
    IF Len(seq) > n THEN SubSeq(seq, Len(seq) - n + 1, Len(seq)) ELSE seq

DeliveredUnstamped(msgs, m) ==
    [msgs EXCEPT ![m].status = DELIVERED]

Delivered(msgs, m) ==
    [msgs EXCEPT ![m].delivered_at = Some(now), ![m].status = DELIVERED]

receive_message(agent_id) ==
    /\ _lock = NoThread
    /\ IF agent_id \notin DOMAIN _queues
       THEN /\ Called("receive_message", agent_id, None)
            /\ UNCHANGED <<qheap, messages, _stats, _delivery_times, obtained>>
       ELSE LET agent_queue == _queues[agent_id]
            IN  IF qheap[agent_queue] = <<>>
                THEN /\ Called("receive_message", agent_id, None)
                     /\ UNCHANGED <<qheap, messages, _stats, _delivery_times,
                                    obtained>>
                ELSE LET got == heappop(messages, qheap[agent_queue])
                         message == got[1]
                         delivery_time == now - messages[message].created_at
                     IN  /\ qheap' = [qheap EXCEPT ![agent_queue] = got[2]]
                         /\ obtained' = [obtained EXCEPT ![message] = @ + 1]
                         /\ messages' = Delivered(messages, message)
                         /\ _stats' = [_stats EXCEPT !.total_delivered = @ + 1]
                         /\ _delivery_times' =
                                LastN(Append(_delivery_times, delivery_time),
                                      DeliveryWindow)
                         /\ Called("receive_message", agent_id, Some(message))
    /\ UNCHANGED <<max_queue_size, _queues, _subscribers, _message_history,
                   _message_counter, _lock, now, interpreter, pc, loc, discarded>>
    /\ UNCHANGED hostvars

(***************************************************************************)
(* MessageBus.get_pending_count, list_agents, get_statistics (queries)     *)
(***************************************************************************)
get_pending_count(agent_id) ==
    IF agent_id \notin DOMAIN _queues THEN -1 ELSE qsize(_queues[agent_id])

list_agents == DOMAIN _queues

RECURSIVE Sum(_)
Sum(seq) == IF seq = <<>> THEN 0 ELSE seq[1] + Sum(Tail(seq))

\* average_delivery_time as the fraction <<sum, count>>; 0.0 before a delivery
average_delivery_time ==
    IF _delivery_times = <<>> THEN <<0, 1>>
    ELSE <<Sum(_delivery_times), Len(_delivery_times)>>

get_statistics ==
    [total_sent |-> _stats.total_sent,
     total_delivered |-> _stats.total_delivered,
     total_failed |-> _stats.total_failed,
     total_timeout |-> _stats.total_timeout,
     average_delivery_time |-> average_delivery_time,
     active_subscriptions |-> _stats.active_subscriptions]

(***************************************************************************)
(* MessageBus._process_timeouts: one pass over the history list            *)
(***************************************************************************)
ExpiredAnyStatus(msg, current_time) ==
    /\ msg.timeout # None
    /\ current_time - msg.created_at > msg.timeout[1]

Expired(msg, current_time) ==
    /\ msg.status = PENDING
    /\ msg.timeout # None
    /\ current_time - msg.created_at > msg.timeout[1]

\* <<messages, total_timeout>> after the loop has visited history[i..]
RECURSIVE SweepFrom(_, _, _, _, _)
SweepFrom(history, i, msgs, total_timeout, current_time) ==
    IF i > Len(history) THEN <<msgs, total_timeout>>
    ELSE LET m == history[i]
         IN  IF Expired(msgs[m], current_time)
             THEN SweepFrom(history, i + 1, [msgs EXCEPT ![m].status = TIMEOUT],
                            total_timeout + 1, current_time)
             ELSE SweepFrom(history, i + 1, msgs, total_timeout, current_time)

\* the loop of _process_timeouts, run under the bus lock
Sweeping(current_time) ==
    LET swept == SweepFrom(_message_history, 1, messages,
                           _stats.total_timeout, current_time)
    IN  /\ messages' = swept[1]
        /\ _stats' = [_stats EXCEPT !.total_timeout = swept[2]]

_process_timeouts ==
    /\ _lock = NoThread
    /\ Sweeping(now)
    /\ Called("_process_timeouts", None, None)
    /\ UNCHANGED <<max_queue_size, _queues, qheap, _subscribers,
                   _message_history, _message_counter, _delivery_times, _lock,
                   now, interpreter, pc, loc, obtained, discarded>>
    /\ UNCHANGED hostvars

(***************************************************************************)
(* MessageBus.clear_history                                                *)
(***************************************************************************)
MessageStats ==
    [total_sent |-> 0, total_delivered |-> 0, total_failed |-> 0,
     total_timeout |-> 0, active_subscriptions |-> 0]

clear_history ==
    /\ _lock = NoThread
    /\ _message_history' = <<>>
    /\ _delivery_times' = <<>>
    /\ _stats' = MessageStats
    /\ Called("clear_history", None, None)
    /\ UNCHANGED <<max_queue_size, _queues, qheap, _subscribers, messages,
                   _message_counter, _lock, now, interpreter, pc, loc, obtained, discarded>>
    /\ UNCHANGED hostvars

(***************************************************************************)
(* Time passes (time.sleep in callers and tests).                          *)
(***************************************************************************)
Tick ==
    /\ now < MaxTime
    /\ now' = now + 1
    /\ UNCHANGED interpreter
    /\ UNCHANGED <<busvars, threadvars, call, obtained, discarded, hostvars>>

(***************************************************************************)
(* MessageBus.__init__                                                     *)
(***************************************************************************)
NoCall == [op |-> "none", arg |-> None, ret |-> None, exc |-> None]

BusInit(sizes) ==
    /\ max_queue_size \in sizes
    /\ _queues = <<>>
    /\ qheap = <<>>
    /\ _subscribers = <<>>
    /\ _message_history = <<>>
    /\ messages = <<>>
    /\ _stats = MessageStats
    /\ _message_counter = 0
    /\ _delivery_times = <<>>
    /\ _lock = NoThread
    /\ now = 0
    /\ call = NoCall
    /\ obtained = <<>>
    /\ discarded = <<>>

(***************************************************************************)
(* ToolRegistry.__init__ registers the stdlib tools; no agent exists yet   *)
(* and the bus worker is not started.                                      *)
(***************************************************************************)
AVAILABLE_TOOLS ==
    [WebSearch |-> "WebSearchTool", FileManager |-> "FileManagerTool",
     Calculator |-> "CalculatorTool", AgentRouting |-> "AgentRoutingTool"]

ToolMetadata(tool_class, tags) ==
    [tool_class |-> tool_class, author |-> "unknown", tags |-> tags,
     usage_count |-> 0, last_used |-> None, enabled |-> TRUE]

HostInit ==
    /\ _running = FALSE
    /\ _worker_thread = None
    /\ status = <<>>
    /\ assigned_tools = <<>>
    /\ message_queue = <<>>
    /\ agent_lock = <<>>
    /\ _processing_thread = <<>>
    /\ _stop_processing = <<>>
    /\ object_id = <<>>
    /\ agent_attrs = <<>>
    /\ _tools = [name \in DOMAIN AVAILABLE_TOOLS |->
                    ToolMetadata(AVAILABLE_TOOLS[name], {"stdlib", "builtin"})]
    /\ _instances = <<>>
    /\ reg_lock = NoThread
    /\ instance_counter = 0
    /\ call_count = <<>>

\* No program is being interpreted.
NoInterpreter == <<>>

ThreadsIdle ==
    /\ pc = [t \in AllThreads |->
                IF t \in Threads THEN "idle" ELSE "unstarted"]
    /\ loc = [t \in AllThreads |-> NoLocals]
    /\ HostInit
    /\ interpreter = NoInterpreter

(***************************************************************************)
(* Spec: the bus API (register, unregister, send, receive, clear_history)  *)
(* called one operation at a time, on a bus built with any max_queue_size  *)
(* in 1..MaxQueueSize.                                                     *)
(***************************************************************************)
Init ==
    /\ BusInit(1..MaxQueueSize)
    /\ ThreadsIdle

Next ==
    \/ \E a \in AgentIds : register_agent(a)
    \/ \E a \in AgentIds : unregister_agent(a)
    \/ /\ _message_counter < MaxMessages
       /\ \E r \in AgentIds :
              send_message("system", r, "general", NORMAL, None, None)
    \/ \E a \in AgentIds : receive_message(a)
    \/ clear_history

Spec == Init /\ [][Next]_vars

(***************************************************************************)
(* SpecPrio: sends of every priority to one recipient and receives, on a   *)
(* bus built with max_queue_size = PrioQueueSize.                          *)
(***************************************************************************)
InitPrio ==
    /\ BusInit({PrioQueueSize})
    /\ ThreadsIdle

NextPrio ==
    \/ register_agent("a1")
    \/ /\ _message_counter < PrioMessages
       /\ \E p \in Priorities :
              send_message("a2", "a1", "general", p, None, None)
    \/ receive_message("a1")

SpecPrio == InitPrio /\ [][NextPrio]_vars

(***************************************************************************)
(* SpecTimeout: messages with and without a timeout sent to one agent,     *)
(* received, swept and discarded while the clock advances.                 *)
(***************************************************************************)
Timeouts == {None, Some(1)}

InitTimeout ==
    /\ BusInit({MaxQueueSize})
    /\ ThreadsIdle

NextTimeout ==
    \/ register_agent("a1")
    \/ unregister_agent("a1")
    \/ /\ _message_counter < MaxMessages
       /\ \E to \in Timeouts :
              send_message("system", "a1", "general", NORMAL, to, None)
    \/ receive_message("a1")
    \/ _process_timeouts
    \/ Tick

SpecTimeout == InitTimeout /\ [][NextTimeout]_vars

(***************************************************************************)
(* The bus operations as threads run them, one step per atomic piece: a    *)
(* section under `with self._lock` that touches only lock-guarded state is *)
(* one step, as is one call on a queue object (queue.Queue has its own     *)
(* mutex).  send_message and register_agent run wholly under the bus lock  *)
(* and are the actions above; receive_message and unregister_agent follow. *)
(***************************************************************************)
queue_get_peek(heap) == <<heappop(messages, heap)[1], heap>>

\* agent_queue.get(timeout=...) / get_nowait() on a non-empty queue
queue_get(heap) == heappop(messages, heap)

\* thread t completes the call: it is recorded when t is observed
Returned(t, op, arg, ret) ==
    IF t \in Observed THEN Called(op, arg, ret) ELSE UNCHANGED call

Return(t, op, arg, ret) ==
    /\ pc' = [pc EXCEPT ![t] = "idle"]
    /\ loc' = [loc EXCEPT ![t] = NoLocals]
    /\ Returned(t, op, arg, ret)

\* where a thread calls receive_message: an API thread when it is idle, an
\* agent's background processor in its loop (_background_processor)
AtEntry(t) == pc[t] = IF t \in Consumers THEN "bp_receive" ELSE "idle"

\* receive_message returns ret: to the API caller, or to the loop of
\* _background_processor, which processes a message and loops on None
Received(t, agent_id, ret) ==
    IF t \in Consumers
    THEN /\ pc' = [pc EXCEPT ![t] = IF ret = None THEN "bp_loop"
                                                   ELSE "pbm_begin"]
         /\ loc' = [loc EXCEPT ![t] = [NoLocals EXCEPT !.self = loc[t].self,
                                                      !.message = ret]]
         /\ UNCHANGED call
    ELSE Return(t, "receive_message", agent_id, ret)

\* receive_message: `with self._lock:` lookup of the agent's queue
recv_lookup(t, agent_id) ==
    /\ AtEntry(t)
    /\ _lock = NoThread
    /\ IF agent_id \notin DOMAIN _queues
       THEN Received(t, agent_id, None)
       ELSE /\ pc' = [pc EXCEPT ![t] = "recv_get"]
            /\ loc' = [loc EXCEPT ![t].agent_id = Some(agent_id),
                                   ![t].agent_queue = Some(_queues[agent_id])]
            /\ UNCHANGED call
    /\ UNCHANGED <<busvars, _lock, now, interpreter, obtained, discarded>>
    /\ UNCHANGED hostvars

\* receive_message: the get on the queue object, outside the bus lock.  On
\* an empty queue get_nowait raises Empty at once and a timed get raises it
\* when the timeout has elapsed: both return None.
recv_get(t) ==
    /\ pc[t] = "recv_get"
    /\ LET q == loc[t].agent_queue[1]
       IN  IF qheap[q] = <<>>
           THEN /\ Received(t, loc[t].agent_id[1], None)
                /\ qheap' = Collect(qheap, _queues, [loc EXCEPT ![t] = NoLocals])
                /\ UNCHANGED obtained
           ELSE LET got == queue_get(qheap[q])
                IN  /\ qheap' = [qheap EXCEPT ![q] = got[2]]
                    /\ obtained' = [obtained EXCEPT ![got[1]] = @ + 1]
                    /\ loc' = [loc EXCEPT ![t].message = Some(got[1])]
                    /\ pc' = [pc EXCEPT ![t] = "recv_stamp"]
                    /\ UNCHANGED call
    /\ UNCHANGED <<max_queue_size, _queues, _subscribers, _message_history,
                   messages, _stats, _message_counter, _delivery_times, _lock,
                   now, interpreter, discarded>>
    /\ UNCHANGED hostvars

\* receive_message: message.delivered_at = datetime.now()
recv_stamp(t) ==
    /\ pc[t] = "recv_stamp"
    /\ messages' = [messages EXCEPT ![loc[t].message[1]].delivered_at = Some(now)]
    /\ pc' = [pc EXCEPT ![t] = "recv_status"]
    /\ UNCHANGED <<max_queue_size, _queues, qheap, _subscribers,
                   _message_history, _stats, _message_counter, _delivery_times,
                   _lock, now, interpreter, call, loc, obtained, discarded>>
    /\ UNCHANGED hostvars

\* receive_message: message.status = MessageStatus.DELIVERED
recv_status(t) ==
    /\ pc[t] = "recv_status"
    /\ messages' = [messages EXCEPT ![loc[t].message[1]].status = DELIVERED]
    /\ pc' = [pc EXCEPT ![t] = "recv_stats"]
    /\ UNCHANGED <<max_queue_size, _queues, qheap, _subscribers,
                   _message_history, _stats, _message_counter, _delivery_times,
                   _lock, now, interpreter, call, loc, obtained, discarded>>
    /\ UNCHANGED hostvars

\* receive_message: `with self._lock:` statistics, then return message
recv_stats(t) ==
    /\ pc[t] = "recv_stats"
    /\ _lock = NoThread
    /\ LET message == loc[t].message[1]
           delivery_time == messages[message].delivered_at[1]
                                - messages[message].created_at
       IN  /\ _stats' = [_stats EXCEPT !.total_delivered = @ + 1]
           /\ _delivery_times' = LastN(Append(_delivery_times, delivery_time),
                                       DeliveryWindow)
           /\ Received(t, loc[t].agent_id[1], Some(message))
    /\ qheap' = Collect(qheap, _queues, [loc EXCEPT ![t] = NoLocals])
    /\ UNCHANGED <<max_queue_size, _queues, _subscribers, _message_history,
                   messages, _message_counter, _lock, now, interpreter, obtained, discarded>>
    /\ UNCHANGED hostvars

\* unregister_agent: take the bus lock and look the agent up
unreg_begin(t, agent_id) ==
    /\ pc[t] = "idle"
    /\ _lock = NoThread
    /\ IF agent_id \notin DOMAIN _queues
       THEN /\ Return(t, "unregister_agent", agent_id, FALSE)
            /\ UNCHANGED _lock
       ELSE /\ _lock' = t
            /\ pc' = [pc EXCEPT ![t] = "unreg_empty"]
            /\ loc' = [loc EXCEPT ![t].agent_id = Some(agent_id)]
            /\ UNCHANGED call
    /\ UNCHANGED <<busvars, now, interpreter, obtained, discarded>>
    /\ UNCHANGED hostvars

\* unregister_agent: `while not self._queues[agent_id].empty()`
unreg_empty(t) ==
    /\ pc[t] = "unreg_empty"
    /\ pc' = [pc EXCEPT ![t] =
                 IF qheap[_queues[loc[t].agent_id[1]]] = <<>>
                 THEN "unreg_del" ELSE "unreg_get"]
    /\ UNCHANGED <<busvars, _lock, now, interpreter, call, loc, obtained, discarded>>
    /\ UNCHANGED hostvars

\* unregister_agent: get_nowait() in the loop; queue.Empty breaks the loop
unreg_get(t) ==
    /\ pc[t] = "unreg_get"
    /\ LET q == _queues[loc[t].agent_id[1]]
       IN  IF qheap[q] = <<>>
           THEN /\ pc' = [pc EXCEPT ![t] = "unreg_del"]
                /\ UNCHANGED <<qheap, discarded>>
           ELSE LET got == heappop(messages, qheap[q])
                IN  /\ qheap' = [qheap EXCEPT ![q] = got[2]]
                    /\ discarded' = [discarded EXCEPT ![got[1]] = @ + 1]
                    /\ pc' = [pc EXCEPT ![t] = "unreg_empty"]
    /\ UNCHANGED <<max_queue_size, _queues, _subscribers, _message_history,
                   messages, _stats, _message_counter, _delivery_times, _lock,
                   now, interpreter, call, loc, obtained>>
    /\ UNCHANGED hostvars

\* unregister_agent: delete the two map entries, release the lock, return
unreg_del(t) ==
    /\ pc[t] = "unreg_del"
    /\ LET agent_id == loc[t].agent_id[1]
       IN  /\ _queues' = Without(_queues, agent_id)
           /\ _subscribers' = Without(_subscribers, agent_id)
           /\ qheap' = Collect(qheap, Without(_queues, agent_id),
                               [loc EXCEPT ![t] = NoLocals])
           /\ Return(t, "unregister_agent", agent_id, TRUE)
    /\ _lock' = NoThread
    /\ UNCHANGED <<max_queue_size, _message_history, messages, _stats,
                   _message_counter, _delivery_times, now, interpreter, obtained, discarded>>
    /\ UNCHANGED hostvars

(***************************************************************************)
(* SpecConc: threads run receive_message and unregister_agent step by step *)
(* while register_agent and send_message (atomic under the bus lock) occur *)
(* between their steps.                                                    *)
(***************************************************************************)
ConcThreads == {"t1", "t2"}

InitConc ==
    /\ BusInit({MaxQueueSize})
    /\ ThreadsIdle

NextConc ==
    \/ register_agent("a1")
    \/ /\ _message_counter < MaxMessages
       /\ send_message("system", "a1", "general", NORMAL, None, None)
    \/ \E t \in ConcThreads : recv_lookup(t, "a1")
    \/ \E t \in ConcThreads : recv_get(t)
    \/ \E t \in ConcThreads : recv_stamp(t)
    \/ \E t \in ConcThreads : recv_status(t)
    \/ \E t \in ConcThreads : recv_stats(t)
    \/ \E t \in ConcThreads : unreg_begin(t, "a1")
    \/ \E t \in ConcThreads : unreg_empty(t)
    \/ \E t \in ConcThreads : unreg_get(t)
    \/ \E t \in ConcThreads : unreg_del(t)

SpecConc == InitConc /\ [][NextConc]_vars

(***************************************************************************)
(* Threads, locks and joins.  The three locks are threading.RLock objects: *)
(* a lock variable holds the thread that owns it.  A thread that is at a   *)
(* step which takes a lock waits for the lock's owner; a thread in         *)
(* Thread.join waits for the joined thread unless the join is timed.       *)
(***************************************************************************)
JoinTimeout == 1

is_alive(thread) == pc[thread] \notin {"unstarted", "done"}

JoinUntimed(target, timeout) == ~is_alive(target)

\* Thread.join(timeout): returns when the target has ended or, with a
\* timeout, when the timeout has elapsed
JoinReturns(target, timeout) == ~is_alive(target) \/ timeout # None

Self(t) == loc[t].self[1]

ConsumerOf(self) == IF self = "a_1" THEN "k1" ELSE "k2"

\* the steps that begin with `with self._lock:` of the agent
AgentLockSteps ==
    {"ask_finally", "et_begin", "et_finally", "pbm_begin", "pbm_finally",
     "cleanup_lock"}

\* the steps that begin with `with self._lock:` of the bus
BusLockSteps ==
    {"ask_request", "ask_response", "route_list", "route_send", "et_log",
     "cleanup_unregister", "bp_receive", "recv_stats", "pbm_pong",
     "worker_sweep"}

\* the steps that begin with `with self._lock:` of the registry
RegistryLockSteps ==
    {"has_tool_registry", "reg_get_instance", "reg_usage", "rwtr_available",
     "rwtr_get"}

\* the thread that t waits for at its current step, if any
WaitsFor(t) ==
    LET owner == IF pc[t] \in AgentLockSteps THEN agent_lock[Self(t)]
                 ELSE IF pc[t] \in BusLockSteps THEN _lock
                 ELSE IF pc[t] \in RegistryLockSteps THEN reg_lock
                 ELSE NoThread
        target == IF pc[t] = "stop_bg_join" THEN _processing_thread[Self(t)]
                  ELSE IF pc[t] = "stop_join" THEN _worker_thread
                  ELSE None
    IN  IF target # None
        THEN IF JoinReturns(target[1], Some(JoinTimeout)) THEN None ELSE target
        ELSE IF owner \in {NoThread, t} THEN None ELSE Some(owner)

CanRun(t) == WaitsFor(t) = None

Goto(t, label) == pc' = [pc EXCEPT ![t] = label]

\* the operation of thread t raises exc
Raise(t, op, arg, exc) ==
    /\ pc' = [pc EXCEPT ![t] = "idle"]
    /\ loc' = [loc EXCEPT ![t] = NoLocals]
    /\ IF t \in Observed THEN Raised(op, arg, exc) ELSE UNCHANGED call

\* everything send_message may change
busdata == <<busvars, obtained, discarded>>

(***************************************************************************)
(* ToolRegistry (runtime/tool_registry.py).  A tool object is the record   *)
(* of its class, its identity and its constructor argument.                *)
(***************************************************************************)
is_tool_registered(name) == name \in DOMAIN _tools

is_tool_available(name) == name \in DOMAIN _tools /\ _tools[name].enabled

NewTool(tool_class, agents) ==
    [tool_class |-> tool_class, id |-> instance_counter + 1, agents |-> agents]

get_tool_instance_uncached(name) ==
    IF name \notin DOMAIN _tools \/ ~_tools[name].enabled
    THEN [instance |-> None, instances |-> _instances,
          counter |-> instance_counter, counts |-> call_count]
    ELSE LET tool == NewTool(_tools[name].tool_class, <<>>)
         IN  [instance |-> Some(tool),
              instances |-> (name :> tool) @@ _instances,
              counter |-> instance_counter + 1,
              counts |-> call_count @@ (tool :> 0)]

\* get_tool_instance: the instance returned (or None) and the registry after
get_tool_instance(name) ==
    IF name \notin DOMAIN _tools
    THEN [instance |-> None, instances |-> _instances,
          counter |-> instance_counter, counts |-> call_count]
    ELSE IF name \in DOMAIN _instances
    THEN [instance |-> Some(_instances[name]), instances |-> _instances,
          counter |-> instance_counter, counts |-> call_count]
    ELSE IF ~_tools[name].enabled
    THEN [instance |-> None, instances |-> _instances,
          counter |-> instance_counter, counts |-> call_count]
    ELSE LET tool == NewTool(_tools[name].tool_class, <<>>)
         IN  [instance |-> Some(tool),
              instances |-> _instances @@ (name :> tool),
              counter |-> instance_counter + 1,
              counts |-> call_count @@ (tool :> 0)]

GettingToolInstance(name) ==
    /\ _instances' = get_tool_instance(name).instances
    /\ instance_counter' = get_tool_instance(name).counter
    /\ call_count' = get_tool_instance(name).counts

enable_tool(t, name) ==
    /\ pc[t] = "idle"
    /\ reg_lock = NoThread
    /\ IF name \notin DOMAIN _tools
       THEN /\ Returned(t, "enable_tool", name, FALSE)
            /\ UNCHANGED _tools
       ELSE /\ _tools' = [_tools EXCEPT ![name].enabled = TRUE]
            /\ Returned(t, "enable_tool", name, TRUE)
    /\ UNCHANGED <<busdata, threadvars, now, interpreter, workervars, agentvars,
                   _instances, reg_lock, instance_counter, call_count>>

disable_tool_keeps_instance(t, name) ==
    /\ pc[t] = "idle"
    /\ reg_lock = NoThread
    /\ IF name \notin DOMAIN _tools
       THEN /\ Returned(t, "disable_tool", name, FALSE)
            /\ UNCHANGED _tools
       ELSE /\ _tools' = [_tools EXCEPT ![name].enabled = FALSE]
            /\ Returned(t, "disable_tool", name, TRUE)
    /\ UNCHANGED <<busdata, threadvars, now, interpreter, workervars, agentvars,
                   _instances, reg_lock, instance_counter, call_count>>

disable_tool(t, name) ==
    /\ pc[t] = "idle"
    /\ reg_lock = NoThread
    /\ IF name \notin DOMAIN _tools
       THEN /\ Returned(t, "disable_tool", name, FALSE)
            /\ UNCHANGED <<_tools, _instances>>
       ELSE /\ _tools' = [_tools EXCEPT ![name].enabled = FALSE]
            /\ _instances' = Without(_instances, name)
            /\ Returned(t, "disable_tool", name, TRUE)
    /\ UNCHANGED <<busdata, threadvars, now, interpreter, workervars, agentvars,
                   reg_lock, instance_counter, call_count>>

is_tool_available_by(t, name) ==
    /\ pc[t] = "idle"
    /\ reg_lock = NoThread
    /\ Returned(t, "is_tool_available", name, is_tool_available(name))
    /\ UNCHANGED <<busdata, threadvars, now, interpreter, hostvars>>

\* get_tool_instance called by a thread (it runs under the registry lock)
get_tool_instance_by(t, name) ==
    /\ pc[t] = "idle"
    /\ reg_lock = NoThread
    /\ GettingToolInstance(name)
    /\ Returned(t, "get_tool_instance", name, get_tool_instance(name).instance)
    /\ UNCHANGED <<busdata, threadvars, now, interpreter, workervars, agentvars, _tools,
                   reg_lock>>

register_tool(t, name, tool_class) ==
    /\ pc[t] = "idle"
    /\ reg_lock = NoThread
    /\ IF name \in DOMAIN _tools
       THEN /\ Returned(t, "register_tool", name, FALSE)
            /\ UNCHANGED _tools
       ELSE /\ _tools' = _tools @@ (name :> ToolMetadata(tool_class, {}))
            /\ Returned(t, "register_tool", name, TRUE)
    /\ UNCHANGED <<busdata, threadvars, now, interpreter, workervars, agentvars,
                   _instances, reg_lock, instance_counter, call_count>>

unregister_tool(t, name) ==
    /\ pc[t] = "idle"
    /\ reg_lock = NoThread
    /\ IF name \notin DOMAIN _tools
       THEN /\ Returned(t, "unregister_tool", name, FALSE)
            /\ UNCHANGED <<_tools, _instances>>
       ELSE /\ _tools' = Without(_tools, name)
            /\ _instances' = Without(_instances, name)
            /\ Returned(t, "unregister_tool", name, TRUE)
    /\ UNCHANGED <<busdata, threadvars, now, interpreter, workervars, agentvars,
                   reg_lock, instance_counter, call_count>>

clear_registry(t) ==
    /\ pc[t] = "idle"
    /\ reg_lock = NoThread
    /\ _tools' = <<>>
    /\ _instances' = <<>>
    /\ Returned(t, "clear_registry", None, None)
    /\ UNCHANGED <<busdata, threadvars, now, interpreter, workervars, agentvars,
                   reg_lock, instance_counter, call_count>>

(***************************************************************************)
(* AgentVal (core/interpreter.py).  An agent object is named by the id it  *)
(* registers with the bus.                                                 *)
(***************************************************************************)
\* format(n, "x"): the lower-case hexadecimal digits of n
HexDigits ==
    <<"0", "1", "2", "3", "4", "5", "6", "7", "8", "9",
      "a", "b", "c", "d", "e", "f">>

RECURSIVE Hex(_)
Hex(n) ==
    IF n < 16 THEN HexDigits[n + 1]
    ELSE Hex(n \div 16) \o HexDigits[(n % 16) + 1]

AgentIdNameOnly(name, address) == name

\* self._agent_id = f"{name}_{id(self):x}"
AgentId(name, address) == name \o "_" \o Hex(address)

\* the addresses of the agent objects that exist; id() of a new object is
\* an address that no existing object has
LiveAddresses == {object_id[self] : self \in DOMAIN object_id}

\* AgentVal.__init__ of an object at the given address: the fields, then
\* register_agent on the bus, whose result is ignored
\* the model every agent of the runs is constructed with
Model == "openai/gpt-4o"

AgentVal_init(name, address) ==
    /\ address \notin LiveAddresses
    /\ _lock = NoThread
    /\ LET agent_id == AgentId(name, address)
       IN  /\ status' = (agent_id :> "idle") @@ status
           /\ assigned_tools' = (agent_id :> <<>>) @@ assigned_tools
           /\ message_queue' = (agent_id :> <<>>) @@ message_queue
           /\ agent_lock' = (agent_id :> NoThread) @@ agent_lock
           /\ _processing_thread' = (agent_id :> None) @@ _processing_thread
           /\ _stop_processing' = (agent_id :> FALSE) @@ _stop_processing
           /\ object_id' = (agent_id :> address) @@ object_id
           /\ agent_attrs' = (agent_id :> [name |-> name, model |-> Model,
                                           properties |-> <<>>])
                                 @@ agent_attrs
           /\ IF agent_id \in DOMAIN _queues
              THEN UNCHANGED <<_queues, qheap, _subscribers>>
              ELSE Registering(agent_id)
           /\ Called("AgentVal", agent_id, None)
    /\ UNCHANGED <<max_queue_size, _message_history, messages, _stats,
                   _message_counter, _delivery_times, threadvars, now, interpreter,
                   obtained, discarded, workervars, regvars>>

StatusAfterNoFinally(current, old_status, exc) ==
    IF exc = None THEN old_status ELSE current

\* `finally: with self._lock: self.status = old_status`
StatusAfter(current, old_status, exc) == old_status

\* ask: `with self._lock:` save and set the status; message.lower() raises
\* AttributeError when the message is not a string
ask_begin(t, self, message_ok) ==
    /\ pc[t] = "idle"
    /\ agent_lock[self] = NoThread
    /\ status' = [status EXCEPT ![self] = "processing"]
    /\ loc' = [loc EXCEPT ![t] =
                  [NoLocals EXCEPT !.self = Some(self), !.op = Some("ask"),
                                   !.old_status = Some(status[self]),
                                   !.entry_status = Some(status[self]),
                                   !.exc = IF message_ok THEN None
                                           ELSE Some("AttributeError")]]
    /\ Goto(t, IF message_ok THEN "ask_request" ELSE "ask_finally")
    /\ UNCHANGED <<busdata, _lock, now, interpreter, call, workervars, object_id, agent_attrs, regvars,
                   assigned_tools, message_queue, agent_lock,
                   _processing_thread, _stop_processing>>

\* ask: send_message(sender="system", recipient=self._agent_id, "ask_request")
ask_request(t) ==
    /\ pc[t] = "ask_request"
    /\ CanRun(t)
    /\ Sending("system", Self(t), "ask_request", NORMAL, None, None)
    /\ Goto(t, "ask_response")
    /\ UNCHANGED <<_lock, now, interpreter, call, loc, hostvars>>

\* ask: send_message(sender=self._agent_id, recipient="system", "ask_response")
ask_response(t) ==
    /\ pc[t] = "ask_response"
    /\ CanRun(t)
    /\ Sending(Self(t), "system", "ask_response", NORMAL, None, None)
    /\ Goto(t, "ask_finally")
    /\ UNCHANGED <<_lock, now, interpreter, call, loc, hostvars>>

\* ask: the finally clause, then the return or the pending exception
ask_finally(t) ==
    /\ pc[t] = "ask_finally"
    /\ CanRun(t)
    /\ status' = [status EXCEPT ![Self(t)] =
                     StatusAfter(@, loc[t].old_status[1], loc[t].exc)]
    /\ IF loc[t].exc = None
       THEN Return(t, "ask", Self(t), "response")
       ELSE Raise(t, "ask", Self(t), loc[t].exc[1])
    /\ UNCHANGED <<busdata, _lock, now, interpreter, workervars, object_id, agent_attrs, regvars, assigned_tools,
                   message_queue, agent_lock, _processing_thread,
                   _stop_processing>>

\* tell: send_message(sender="system", recipient=self._agent_id, "tell")
tell_send(t, self) ==
    /\ pc[t] = "idle"
    /\ _lock = NoThread
    /\ Sending("system", self, "tell", NORMAL, None, None)
    /\ loc' = [loc EXCEPT ![t] =
                  [NoLocals EXCEPT !.self = Some(self), !.op = Some("tell"),
                                   !.result = SendResult(self)]]
    /\ Goto(t, "tell_append")
    /\ UNCHANGED <<_lock, now, interpreter, call, hostvars>>

\* tell: self.message_queue.append({...})
tell_append(t) ==
    /\ pc[t] = "tell_append"
    /\ message_queue' = [message_queue EXCEPT ![Self(t)] =
                            Append(@, [sender |-> "system",
                                       message_id |-> loc[t].result])]
    /\ Return(t, "tell", Self(t), None)
    /\ UNCHANGED <<busdata, _lock, now, interpreter, workervars, object_id, agent_attrs, regvars, status,
                   assigned_tools, agent_lock, _processing_thread,
                   _stop_processing>>

HasToolResultLenient(t, locals, result) ==
    IF locals.op = Some("has_tool")
    THEN Return(t, "has_tool", locals.self[1], result)
    ELSE /\ Goto(t, "et_begin")
         /\ loc' = [loc EXCEPT ![t] = locals]
         /\ UNCHANGED call

\* has_tool returns result: to its caller, or inside execute_tool, which
\* raises RuntimeError on False and goes on to the status section on True
HasToolResult(t, locals, result) ==
    IF locals.op = Some("has_tool")
    THEN Return(t, "has_tool", locals.self[1], result)
    ELSE IF result
    THEN /\ Goto(t, "et_begin")
         /\ loc' = [loc EXCEPT ![t] = locals]
         /\ UNCHANGED call
    ELSE Raise(t, "execute_tool", locals.self[1], "RuntimeError")

\* has_tool: `with self._lock:` the test of assigned_tools; the registry is
\* asked, with the agent lock held, only when the tool is not assigned
has_tool_begin(t, self, op, tool_name, args_ok, agent_name) ==
    /\ pc[t] = "idle"
    /\ agent_lock[self] = NoThread
    /\ LET locals == [NoLocals EXCEPT !.self = Some(self), !.op = Some(op),
                                      !.tool_name = Some(tool_name),
                                      !.args_ok = Some(args_ok),
                                      !.agent_name = agent_name,
                                      !.entry_status = Some(status[self])]
       IN  IF tool_name \in DOMAIN assigned_tools[self]
           THEN /\ HasToolResult(t, locals, TRUE)
                /\ UNCHANGED agent_lock
           ELSE /\ agent_lock' = [agent_lock EXCEPT ![self] = t]
                /\ Goto(t, "has_tool_registry")
                /\ loc' = [loc EXCEPT ![t] = locals]
                /\ UNCHANGED call
    /\ UNCHANGED <<busdata, _lock, now, interpreter, workervars, object_id, agent_attrs, regvars, status,
                   assigned_tools, message_queue, _processing_thread,
                   _stop_processing>>

\* has_tool: self._tool_registry.is_tool_available(tool_name), then the
\* agent lock is released
has_tool_registry(t) ==
    /\ pc[t] = "has_tool_registry"
    /\ CanRun(t)
    /\ agent_lock' = [agent_lock EXCEPT ![Self(t)] = NoThread]
    /\ HasToolResult(t, loc[t], is_tool_available(loc[t].tool_name[1]))
    /\ UNCHANGED <<busdata, _lock, now, interpreter, workervars, object_id, agent_attrs, regvars, status,
                   assigned_tools, message_queue, _processing_thread,
                   _stop_processing>>

\* execute_tool: `with self._lock:` save and set the status
et_begin(t) ==
    /\ pc[t] = "et_begin"
    /\ CanRun(t)
    /\ status' = [status EXCEPT ![Self(t)] = "using_tool"]
    /\ loc' = [loc EXCEPT ![t].old_status = Some(status[Self(t)])]
    /\ Goto(t, "et_execute")
    /\ UNCHANGED <<busdata, _lock, now, interpreter, call, workervars, object_id, agent_attrs, regvars,
                   assigned_tools, message_queue, agent_lock,
                   _processing_thread, _stop_processing>>

et_execute_registry(t) ==
    /\ pc[t] = "et_execute"
    /\ Goto(t, "reg_get_instance")
    /\ UNCHANGED <<busdata, _lock, now, interpreter, call, loc, hostvars>>

\* execute_tool: `if tool_name in self.assigned_tools:` local tool first
et_execute(t) ==
    /\ pc[t] = "et_execute"
    /\ LET tool_name == loc[t].tool_name[1]
       IN  IF tool_name \in DOMAIN assigned_tools[Self(t)]
           THEN /\ loc' = [loc EXCEPT ![t].tool_instance =
                              Some(assigned_tools[Self(t)][tool_name])]
                /\ Goto(t, "tool_execute")
           ELSE /\ Goto(t, "reg_get_instance")
                /\ UNCHANGED loc
    /\ UNCHANGED <<busdata, _lock, now, interpreter, call, hostvars>>

\* ToolRegistry.execute_tool: get_tool_instance; None raises NameError.
\* entry_meta keeps the tool's metadata as it is when the call begins.
reg_get_instance(t) ==
    /\ pc[t] = "reg_get_instance"
    /\ CanRun(t)
    /\ GettingToolInstance(loc[t].tool_name[1])
    /\ LET name == loc[t].tool_name[1]
           tool_instance == get_tool_instance(name).instance
           entry_meta == IF name \in DOMAIN _tools THEN Some(_tools[name])
                         ELSE None
       IN  IF tool_instance = None
           THEN /\ loc' = [loc EXCEPT ![t].exc = Some("NameError"),
                                       ![t].entry_meta = entry_meta]
                /\ Goto(t, "et_finally")
           ELSE /\ loc' = [loc EXCEPT ![t].tool_instance = tool_instance,
                                       ![t].entry_meta = entry_meta]
                /\ Goto(t, "reg_usage")
    /\ UNCHANGED <<busdata, _lock, now, interpreter, call, workervars, agentvars, _tools,
                   reg_lock>>

\* ToolRegistry.execute_tool: the usage statistics, before the execution
reg_usage(t) ==
    /\ pc[t] = "reg_usage"
    /\ CanRun(t)
    /\ LET name == loc[t].tool_name[1]
       IN  IF name \in DOMAIN _tools
           THEN _tools' = [_tools EXCEPT ![name].usage_count = @ + 1,
                                         ![name].last_used = Some(now)]
           ELSE UNCHANGED _tools
    /\ Goto(t, "tool_execute")
    /\ UNCHANGED <<busdata, _lock, now, interpreter, call, loc, workervars, agentvars,
                   _instances, reg_lock, instance_counter, call_count>>

\* Tool.execute: wrong arguments raise TypeError before the body; the body
\* counts the call; AgentRoutingTool goes on to the bus when it has a target
tool_execute(t) ==
    /\ pc[t] = "tool_execute"
    /\ LET tool == loc[t].tool_instance[1]
           target == IF loc[t].agent_name # None THEN loc[t].agent_name
                     ELSE IF tool.agents # <<>> THEN Some(tool.agents[1])
                     ELSE None
       IN  IF ~loc[t].args_ok[1]
           THEN /\ loc' = [loc EXCEPT ![t].exc = Some("TypeError")]
                /\ Goto(t, "et_finally")
                /\ UNCHANGED call_count
           ELSE /\ call_count' = [call_count EXCEPT ![tool] = @ + 1]
                /\ IF tool.tool_class = "AgentRoutingTool" /\ target # None
                   THEN /\ loc' = [loc EXCEPT ![t].agent_name = target]
                        /\ Goto(t, "route_list")
                   ELSE /\ Goto(t, "et_log")
                        /\ UNCHANGED loc
    /\ UNCHANGED <<busdata, _lock, now, interpreter, call, workervars, agentvars, _tools,
                   _instances, reg_lock, instance_counter>>

\* AgentRoutingTool.execute: message_bus.list_agents() and the search of the
\* target among the registered ids
route_list(t) ==
    /\ pc[t] = "route_list"
    /\ CanRun(t)
    /\ Goto(t, IF loc[t].agent_name[1] \in list_agents THEN "route_send"
                                                       ELSE "et_log")
    /\ UNCHANGED <<busdata, _lock, now, interpreter, call, loc, hostvars>>

\* AgentRoutingTool.execute: send_message(..., "routed_message")
route_send(t) ==
    /\ pc[t] = "route_send"
    /\ CanRun(t)
    /\ Sending("system", loc[t].agent_name[1], "routed_message", NORMAL, None,
               None)
    /\ Goto(t, "et_log")
    /\ UNCHANGED <<_lock, now, interpreter, call, loc, hostvars>>

\* execute_tool: send_message(self._agent_id, "system", "tool_usage")
et_log(t) ==
    /\ pc[t] = "et_log"
    /\ CanRun(t)
    /\ Sending(Self(t), "system", "tool_usage", NORMAL, None, None)
    /\ Goto(t, "et_finally")
    /\ UNCHANGED <<_lock, now, interpreter, call, loc, hostvars>>

\* execute_tool: the finally clause, then the return or the pending exception
et_finally(t) ==
    /\ pc[t] = "et_finally"
    /\ CanRun(t)
    /\ status' = [status EXCEPT ![Self(t)] =
                     StatusAfter(@, loc[t].old_status[1], loc[t].exc)]
    /\ IF loc[t].exc = None
       THEN Return(t, "execute_tool", Self(t), "result")
       ELSE Raise(t, "execute_tool", Self(t), loc[t].exc[1])
    /\ UNCHANGED <<busdata, _lock, now, interpreter, workervars, object_id, agent_attrs, regvars, assigned_tools,
                   message_queue, agent_lock, _processing_thread,
                   _stop_processing>>

\* register_with_tool_registry: `with self._lock:`
rwtr_begin(t, self, tool_name) ==
    /\ pc[t] = "idle"
    /\ agent_lock[self] = NoThread
    /\ agent_lock' = [agent_lock EXCEPT ![self] = t]
    /\ loc' = [loc EXCEPT ![t] =
                  [NoLocals EXCEPT !.self = Some(self),
                                   !.op = Some("register_with_tool_registry"),
                                   !.tool_name = Some(tool_name)]]
    /\ Goto(t, "rwtr_available")
    /\ UNCHANGED <<busdata, _lock, now, interpreter, call, workervars, object_id, agent_attrs, regvars, status,
                   assigned_tools, message_queue, _processing_thread,
                   _stop_processing>>

\* register_with_tool_registry: is_tool_available, agent lock held
rwtr_available(t) ==
    /\ pc[t] = "rwtr_available"
    /\ CanRun(t)
    /\ LET tool_name == loc[t].tool_name[1]
       IN  IF is_tool_available(tool_name)
              /\ tool_name \notin DOMAIN assigned_tools[Self(t)]
           THEN /\ Goto(t, "rwtr_get")
                /\ UNCHANGED <<loc, call, agent_lock>>
           ELSE /\ agent_lock' = [agent_lock EXCEPT ![Self(t)] = NoThread]
                /\ Return(t, "register_with_tool_registry", Self(t),
                          is_tool_available(tool_name))
    /\ UNCHANGED <<busdata, _lock, now, interpreter, workervars, object_id, agent_attrs, regvars, status,
                   assigned_tools, message_queue, _processing_thread,
                   _stop_processing>>

\* register_with_tool_registry: get_tool_instance, agent lock held; the
\* instance, if any, is cached in assigned_tools
rwtr_get(t) ==
    /\ pc[t] = "rwtr_get"
    /\ CanRun(t)
    /\ GettingToolInstance(loc[t].tool_name[1])
    /\ LET tool_name == loc[t].tool_name[1]
           tool_instance == get_tool_instance(tool_name).instance
       IN  IF tool_instance = None
           THEN UNCHANGED assigned_tools
           ELSE assigned_tools' =
                    [assigned_tools EXCEPT ![Self(t)] =
                        (tool_name :> tool_instance[1]) @@ @]
    /\ agent_lock' = [agent_lock EXCEPT ![Self(t)] = NoThread]
    /\ Return(t, "register_with_tool_registry", Self(t), TRUE)
    /\ UNCHANGED <<busdata, _lock, now, interpreter, workervars, object_id, agent_attrs, _tools, reg_lock, status,
                   message_queue, _processing_thread, _stop_processing>>

\* assign_tool, called by the interpreter's tool assignment with a new
\* AgentRoutingTool(agent_list)
assign_tool(t, self, tool_name, agents) ==
    /\ pc[t] = "idle"
    /\ LET tool == NewTool("AgentRoutingTool", agents)
       IN  /\ assigned_tools' = [assigned_tools EXCEPT ![self] =
                                    (tool_name :> tool) @@ @]
           /\ call_count' = call_count @@ (tool :> 0)
    /\ instance_counter' = instance_counter + 1
    /\ Returned(t, "assign_tool", self, None)
    /\ UNCHANGED <<busdata, threadvars, now, interpreter, workervars, object_id, agent_attrs, _tools, _instances,
                   reg_lock, status, message_queue, agent_lock,
                   _processing_thread, _stop_processing>>

remove_tool(t, self, tool_name) ==
    /\ pc[t] = "idle"
    /\ IF tool_name \in DOMAIN assigned_tools[self]
       THEN /\ assigned_tools' = [assigned_tools EXCEPT ![self] =
                                     Without(@, tool_name)]
            /\ Returned(t, "remove_tool", self, TRUE)
       ELSE /\ UNCHANGED assigned_tools
            /\ Returned(t, "remove_tool", self, FALSE)
    /\ UNCHANGED <<busdata, threadvars, now, interpreter, workervars, object_id, agent_attrs, regvars, status,
                   message_queue, agent_lock, _processing_thread,
                   _stop_processing>>

(***************************************************************************)
(* The agent's background processor and cleanup.                           *)
(***************************************************************************)
AlreadyRunningByFlag(self) ==
    _processing_thread[self] # None /\ ~_stop_processing[self]

\* `if self._processing_thread and self._processing_thread.is_alive():`
AlreadyRunning(self) ==
    _processing_thread[self] # None /\ is_alive(_processing_thread[self][1])

\* threading.Thread(...): a new thread object, one of the pool that is not
\* running
NewThread(self) ==
    IF ~is_alive(ConsumerOf(self)) THEN ConsumerOf(self)
    ELSE CHOOSE k \in Consumers : ~is_alive(k)

start_background_processing(t, self) ==
    /\ pc[t] = "idle"
    /\ agent_lock[self] = NoThread
    /\ IF AlreadyRunning(self)
       THEN /\ Returned(t, "start_background_processing", self, FALSE)
            /\ UNCHANGED <<pc, loc, _processing_thread, _stop_processing>>
       ELSE LET thread == NewThread(self)
            IN  /\ \E k \in Consumers : ~is_alive(k)
                /\ _stop_processing' = [_stop_processing EXCEPT ![self] = FALSE]
                /\ _processing_thread' =
                       [_processing_thread EXCEPT ![self] = Some(thread)]
                /\ pc' = [pc EXCEPT ![thread] = "bp_loop"]
                /\ loc' = [loc EXCEPT ![thread] =
                              [NoLocals EXCEPT !.self = Some(self)]]
                /\ Returned(t, "start_background_processing", self, TRUE)
    /\ UNCHANGED <<busdata, _lock, now, interpreter, workervars, object_id, agent_attrs, regvars, status,
                   assigned_tools, message_queue, agent_lock>>

StopResultOnly(t, locals, result) ==
    Return(t, locals.op[1], locals.self[1], result)

\* stop_background_processing returns result: to its caller, or inside
\* cleanup, which goes on to unregister the agent
StopResult(t, locals, result) ==
    IF locals.op = Some("stop_background_processing")
    THEN Return(t, "stop_background_processing", locals.self[1], result)
    ELSE /\ Goto(t, "cleanup_lock")
         /\ loc' = [loc EXCEPT ![t] = locals]
         /\ UNCHANGED call

\* stop_background_processing: `with self._lock:` the test and the stop flag
stop_bg_begin(t, self, op) ==
    /\ pc[t] = "idle"
    /\ agent_lock[self] = NoThread
    /\ LET locals == [NoLocals EXCEPT !.self = Some(self), !.op = Some(op)]
       IN  IF _processing_thread[self] = None
              \/ ~is_alive(_processing_thread[self][1])
           THEN /\ StopResult(t, locals, FALSE)
                /\ UNCHANGED <<_stop_processing, agent_lock>>
           ELSE /\ _stop_processing' = [_stop_processing EXCEPT ![self] = TRUE]
                /\ agent_lock' = [agent_lock EXCEPT ![self] = t]
                /\ Goto(t, "stop_bg_join")
                /\ loc' = [loc EXCEPT ![t] = locals]
                /\ UNCHANGED call
    /\ UNCHANGED <<busdata, _lock, now, interpreter, workervars, object_id, agent_attrs, regvars, status,
                   assigned_tools, message_queue, _processing_thread>>

\* stop_background_processing: self._processing_thread.join(timeout=1.0) with
\* the agent lock held, then the lock is released
stop_bg_join(t) ==
    /\ pc[t] = "stop_bg_join"
    /\ CanRun(t)
    /\ agent_lock' = [agent_lock EXCEPT ![Self(t)] = NoThread]
    /\ StopResult(t, loc[t], TRUE)
    /\ UNCHANGED <<busdata, _lock, now, interpreter, workervars, object_id, agent_attrs, regvars, status,
                   assigned_tools, message_queue, _processing_thread,
                   _stop_processing>>

\* cleanup: `with self._lock:`
cleanup_lock(t) ==
    /\ pc[t] = "cleanup_lock"
    /\ CanRun(t)
    /\ agent_lock' = [agent_lock EXCEPT ![Self(t)] = t]
    /\ Goto(t, "cleanup_unregister")
    /\ UNCHANGED <<busdata, _lock, now, interpreter, call, loc, workervars, object_id, agent_attrs, regvars,
                   status, assigned_tools, message_queue, _processing_thread,
                   _stop_processing>>

\* cleanup: self._message_bus.unregister_agent(self._agent_id), agent lock
\* held, then the lock is released
cleanup_unregister(t) ==
    /\ pc[t] = "cleanup_unregister"
    /\ CanRun(t)
    /\ IF Self(t) \in DOMAIN _queues
       THEN Unregistering(Self(t), [loc EXCEPT ![t] = NoLocals])
       ELSE UNCHANGED <<_queues, qheap, _subscribers, discarded>>
    /\ agent_lock' = [agent_lock EXCEPT ![Self(t)] = NoThread]
    /\ Return(t, "cleanup", Self(t), None)
    /\ UNCHANGED <<max_queue_size, _message_history, messages, _stats,
                   _message_counter, _delivery_times, _lock, now, interpreter, obtained,
                   workervars, object_id, agent_attrs, regvars, status, assigned_tools, message_queue,
                   _processing_thread, _stop_processing>>

bp_loop_unchecked(k) ==
    /\ pc[k] = "bp_loop"
    /\ Goto(k, "bp_receive")
    /\ UNCHANGED <<busdata, _lock, now, interpreter, call, loc, hostvars>>

\* _background_processor: `while not self._stop_processing.is_set():`
bp_loop(k) ==
    /\ pc[k] = "bp_loop"
    /\ Goto(k, IF _stop_processing[Self(k)] THEN "done" ELSE "bp_receive")
    /\ UNCHANGED <<busdata, _lock, now, interpreter, call, loc, hostvars>>

\* _process_background_message: `with self._lock:` save and set the status
pbm_begin(k) ==
    /\ pc[k] = "pbm_begin"
    /\ CanRun(k)
    /\ status' = [status EXCEPT ![Self(k)] = "processing"]
    /\ loc' = [loc EXCEPT ![k].old_status = Some(status[Self(k)])]
    /\ LET message_type == messages[loc[k].message[1]].message_type
       IN  Goto(k, IF message_type = "tell" THEN "pbm_tell"
                   ELSE IF message_type = "ping" THEN "pbm_pong"
                   ELSE "pbm_finally")
    /\ UNCHANGED <<busdata, _lock, now, interpreter, call, workervars, object_id, agent_attrs, regvars,
                   assigned_tools, message_queue, agent_lock,
                   _processing_thread, _stop_processing>>

\* _process_background_message: a "tell" is appended to message_queue
pbm_tell(k) ==
    /\ pc[k] = "pbm_tell"
    /\ LET message == messages[loc[k].message[1]]
       IN  message_queue' = [message_queue EXCEPT ![Self(k)] =
                                Append(@, [sender |-> message.sender,
                                           message_id |-> message.id])]
    /\ Goto(k, "pbm_finally")
    /\ UNCHANGED <<busdata, _lock, now, interpreter, call, loc, workervars, object_id, agent_attrs, regvars,
                   status, assigned_tools, agent_lock, _processing_thread,
                   _stop_processing>>

\* _process_background_message: a "ping" is answered with a "pong"
pbm_pong(k) ==
    /\ pc[k] = "pbm_pong"
    /\ CanRun(k)
    /\ LET message == messages[loc[k].message[1]]
       IN  Sending(Self(k), message.sender, "pong", NORMAL, None,
                   Some(message.id))
    /\ Goto(k, "pbm_finally")
    /\ UNCHANGED <<_lock, now, interpreter, call, loc, hostvars>>

\* _process_background_message: the finally clause; back to the loop
pbm_finally(k) ==
    /\ pc[k] = "pbm_finally"
    /\ CanRun(k)
    /\ status' = [status EXCEPT ![Self(k)] =
                     StatusAfter(@, loc[k].old_status[1], loc[k].exc)]
    /\ loc' = [loc EXCEPT ![k] = [NoLocals EXCEPT !.self = loc[k].self]]
    /\ Goto(k, "bp_loop")
    /\ UNCHANGED <<busdata, _lock, now, interpreter, call, workervars, object_id, agent_attrs, regvars,
                   assigned_tools, message_queue, agent_lock,
                   _processing_thread, _stop_processing>>

(***************************************************************************)
(* MessageBus.start, stop and the worker thread (_worker_loop).            *)
(***************************************************************************)
start(t) ==
    /\ pc[t] = "idle"
    /\ _lock = NoThread
    /\ IF _running
       THEN UNCHANGED <<pc, loc, _running, _worker_thread>>
       ELSE LET thread == CHOOSE w \in Workers : ~is_alive(w)
            IN  /\ \E w \in Workers : ~is_alive(w)
                /\ _running' = TRUE
                /\ _worker_thread' = Some(thread)
                /\ pc' = [pc EXCEPT ![thread] = "worker_loop"]
                /\ loc' = [loc EXCEPT ![thread] = NoLocals]
    /\ Returned(t, "start", None, None)
    /\ UNCHANGED <<busdata, _lock, now, interpreter, agentvars, regvars>>

\* stop: `with self._lock:` the flag and the test of the worker
stop_begin(t) ==
    /\ pc[t] = "idle"
    /\ _lock = NoThread
    /\ _running' = FALSE
    /\ IF _worker_thread # None /\ is_alive(_worker_thread[1])
       THEN /\ _lock' = t
            /\ Goto(t, "stop_join")
            /\ loc' = [loc EXCEPT ![t] = [NoLocals EXCEPT !.op = Some("stop")]]
            /\ UNCHANGED call
       ELSE /\ Return(t, "stop", None, None)
            /\ UNCHANGED _lock
    /\ UNCHANGED <<busdata, now, interpreter, _worker_thread, agentvars, regvars>>

\* stop: self._worker_thread.join(timeout=1.0) with the bus lock held, then
\* the lock is released
stop_join(t) ==
    /\ pc[t] = "stop_join"
    /\ CanRun(t)
    /\ _lock' = NoThread
    /\ Return(t, "stop", None, None)
    /\ UNCHANGED <<busdata, now, interpreter, hostvars>>

\* _worker_loop: `while self._running:`; _process_timeouts reads the clock
\* before it takes the lock
worker_loop(w) ==
    /\ pc[w] = "worker_loop"
    /\ IF _running
       THEN /\ Goto(w, "worker_sweep")
            /\ loc' = [loc EXCEPT ![w].current_time = Some(now)]
       ELSE /\ Goto(w, "done")
            /\ UNCHANGED loc
    /\ UNCHANGED <<busdata, _lock, now, interpreter, call, hostvars>>

\* _process_timeouts: `with self._lock:` the loop over the history
worker_sweep(w) ==
    /\ pc[w] = "worker_sweep"
    /\ CanRun(w)
    /\ Sweeping(loc[w].current_time[1])
    /\ Goto(w, "worker_loop")
    /\ loc' = [loc EXCEPT ![w] = NoLocals]
    /\ UNCHANGED <<max_queue_size, _queues, qheap, _subscribers,
                   _message_history, _message_counter, _delivery_times, _lock,
                   now, interpreter, call, obtained, discarded, hostvars>>

(***************************************************************************)
(* SpecAgent: one caller (thread t1) works on one agent: it declares the   *)
(* agent, calls ask, has_tool, execute_tool and                            *)
(* register_with_tool_registry step by step and, between calls, assigns    *)
(* and removes tools and disables and enables registry tools.              *)
(***************************************************************************)
ToolNames == {"WebSearch", "AgentRouting", "NoSuchTool"}

Exists(self) == self \in DOMAIN status

\* the caps on the counters of tool objects and tool executions
ToolsBounded ==
    /\ instance_counter < MaxToolUses
    /\ \A name \in DOMAIN _tools : _tools[name].usage_count < MaxToolUses
    /\ \A tool \in DOMAIN call_count : call_count[tool] < MaxToolUses

InitAgent ==
    /\ BusInit({MaxQueueSize})
    /\ ThreadsIdle

AgentCalls(t, self) ==
    \/ /\ _message_counter < MaxSends
       /\ \E message_ok \in BOOLEAN : ask_begin(t, self, message_ok)
    \/ \E tool_name \in ToolNames :
           has_tool_begin(t, self, "has_tool", tool_name, TRUE, None)
    \/ /\ _message_counter < MaxSends
       /\ ToolsBounded
       /\ \E tool_name \in ToolNames, args_ok \in BOOLEAN,
             agent_name \in {None, Some(self)} :
              has_tool_begin(t, self, "execute_tool", tool_name, args_ok,
                             agent_name)
    \/ /\ ToolsBounded
       /\ \E tool_name \in ToolNames : rwtr_begin(t, self, tool_name)

AgentSteps(t) ==
    \/ ask_request(t)
    \/ ask_response(t)
    \/ ask_finally(t)
    \/ has_tool_registry(t)
    \/ et_begin(t)
    \/ et_execute(t)
    \/ reg_get_instance(t)
    \/ reg_usage(t)
    \/ tool_execute(t)
    \/ route_list(t)
    \/ route_send(t)
    \/ et_log(t)
    \/ et_finally(t)
    \/ rwtr_available(t)
    \/ rwtr_get(t)

NextAgent ==
    \/ AgentVal_init("a", 1)
    \/ Exists("a_1") /\ AgentCalls("t1", "a_1")
    \/ AgentSteps("t1")
    \/ /\ Exists("a_1")
       /\ ToolsBounded
       /\ \E agents \in {<<>>, <<"a_1">>} :
              assign_tool("t1", "a_1", "AgentRouting", agents)
    \/ Exists("a_1") /\ remove_tool("t1", "a_1", "AgentRouting")
    \/ disable_tool("t1", "WebSearch")
    \/ enable_tool("t1", "WebSearch")

SpecAgent == InitAgent /\ [][NextAgent]_vars

(***************************************************************************)
(* The bus API called by a thread (each runs wholly under the bus lock).   *)
(***************************************************************************)
send_message_by(t, sender, recipient, message_type) ==
    /\ pc[t] = "idle"
    /\ _lock = NoThread
    /\ Sending(sender, recipient, message_type, NORMAL, None, None)
    /\ Returned(t, "send_message", recipient, SendResult(recipient))
    /\ UNCHANGED <<_lock, now, interpreter, pc, loc, hostvars>>

register_agent_by(t, agent_id) ==
    /\ pc[t] = "idle"
    /\ _lock = NoThread
    /\ IF agent_id \in DOMAIN _queues
       THEN UNCHANGED <<_queues, qheap, _subscribers>>
       ELSE Registering(agent_id)
    /\ Returned(t, "register_agent", agent_id, agent_id \notin DOMAIN _queues)
    /\ UNCHANGED <<max_queue_size, _message_history, messages, _stats,
                   _message_counter, _delivery_times, _lock, now, interpreter, pc, loc,
                   obtained, discarded, hostvars>>

unregister_agent_by(t, agent_id) ==
    /\ pc[t] = "idle"
    /\ _lock = NoThread
    /\ IF agent_id \notin DOMAIN _queues
       THEN UNCHANGED <<_queues, qheap, _subscribers, discarded>>
       ELSE Unregistering(agent_id, loc)
    /\ Returned(t, "unregister_agent", agent_id, agent_id \in DOMAIN _queues)
    /\ UNCHANGED <<max_queue_size, _message_history, messages, _stats,
                   _message_counter, _delivery_times, _lock, now, interpreter, pc, loc,
                   obtained, hostvars>>

(***************************************************************************)
(* SpecLock: every thread of the runtime at once.  Thread t2 calls the     *)
(* agent operations on agent a1; thread t3 calls the bus and the registry; *)
(* the agent's background processor and the bus worker run their loops.    *)
(***************************************************************************)
InitLock ==
    /\ BusInit({MaxQueueSize})
    /\ ThreadsIdle

LockCalls(t, self) ==
    \/ /\ _message_counter < MaxSends
       /\ ask_begin(t, self, TRUE)
    \/ /\ _message_counter < MaxSends
       /\ Len(message_queue[self]) < MaxSends
       /\ tell_send(t, self)
    \/ has_tool_begin(t, self, "has_tool", "WebSearch", TRUE, None)
    \/ /\ _message_counter < MaxSends
       /\ ToolsBounded
       /\ \E tool_name \in {"WebSearch", "AgentRouting"} :
              has_tool_begin(t, self, "execute_tool", tool_name, TRUE,
                             Some(self))
    \/ /\ ToolsBounded
       /\ rwtr_begin(t, self, "AgentRouting")
    \/ start_background_processing(t, self)
    \/ \E op \in {"stop_background_processing", "cleanup"} :
           stop_bg_begin(t, self, op)

LockSteps(t) ==
    \/ AgentSteps(t)
    \/ tell_append(t)
    \/ stop_bg_join(t)
    \/ cleanup_lock(t)
    \/ cleanup_unregister(t)

BusCalls(t) ==
    \/ /\ _running \/ Cardinality({w \in Workers : is_alive(w)}) < LockWorkers
       /\ start(t)
    \/ stop_begin(t)
    \/ stop_join(t)
    \/ /\ _message_counter < MaxSends
       /\ send_message_by(t, "a2", "a_1", "ping")
    \/ unregister_agent_by(t, "a_1")
    \/ disable_tool(t, "WebSearch")
    \/ enable_tool(t, "WebSearch")

ConsumerSteps(k) ==
    \/ bp_loop(k)
    \/ recv_lookup(k, Self(k))
    \/ recv_get(k)
    \/ recv_stamp(k)
    \/ recv_status(k)
    \/ recv_stats(k)
    \/ pbm_begin(k)
    \/ pbm_tell(k)
    \/ pbm_pong(k)
    \/ pbm_finally(k)

NextLock ==
    \/ AgentVal_init("a", 1)
    \/ Exists("a_1") /\ LockCalls("t2", "a_1")
    \/ LockSteps("t2")
    \/ BusCalls("t3")
    \/ ConsumerSteps("k1")
    \/ \E w \in Workers : worker_loop(w)
    \/ \E w \in Workers : worker_sweep(w)

SpecLock == InitLock /\ [][NextLock]_vars

(***************************************************************************)
(* Properties.                                                             *)
(***************************************************************************)
Range(seq) == {seq[i] : i \in 1..Len(seq)}

Mailbox(agent_id) == Range(qheap[_queues[agent_id]])

\* C1: receive_message returns a message of the highest priority in the
\* mailbox, so receives with no send in between come out in non-increasing
\* priority order.
C1_ReceiveHighestPriority ==
    [][receive_message("a1") /\ call'.ret # None =>
          /\ \A m \in Mailbox("a1") :
                 messages[m].priority <= messages[call'.ret[1]].priority
          /\ (call.op = "receive_message" /\ call.ret # None) =>
                 messages[call.ret[1]].priority >= messages[call'.ret[1]].priority
      ]_vars

\* C1 witness: LOW, URGENT, NORMAL were sent in that order and the first
\* receive returned the URGENT message, leaving the other two queued.
C1_Witness ==
    /\ Len(_message_history) = 3
    /\ [i \in 1..3 |-> messages[_message_history[i]].priority]
           = <<LOW, URGENT, NORMAL>>
    /\ call.op = "receive_message"
    /\ call.ret = Some(_message_history[2])
    /\ get_pending_count("a1") = 2

\* C2: among messages of equal priority in a mailbox, receive_message
\* returns the one that was sent first.
C2_FifoAmongEqualPriority ==
    [][receive_message("a1") /\ call'.ret # None =>
          \A m \in Mailbox("a1") :
              messages[m].priority = messages[call'.ret[1]].priority
                  => call'.ret[1] <= m
      ]_vars

\* C3: the pending count of a registered agent is between 0 and
\* max_queue_size, and a send to a mailbox holding max_queue_size messages
\* returns None.
C3_BoundedMailbox ==
    /\ [](\A a \in list_agents :
             get_pending_count(a) >= 0 /\ get_pending_count(a) <= max_queue_size)
    /\ [][\A r \in AgentIds :
             (/\ r \in list_agents
              /\ get_pending_count(r) = max_queue_size
              /\ send_message("system", r, "general", NORMAL, None, None))
             => call'.ret = None /\ UNCHANGED qheap
         ]_vars

\* C3 witness: a send to a full mailbox of a bus built with size 2 returned None.
C3_Witness ==
    /\ max_queue_size = 2
    /\ call.op = "send_message"
    /\ call.ret = None
    /\ call.arg \in list_agents
    /\ get_pending_count(call.arg) = max_queue_size

\* C7: a message whose status is TIMEOUT or DELIVERED keeps that status.
C7_FinalStatusKept ==
    [][\A m \in DOMAIN messages :
           messages[m].status \in {TIMEOUT, DELIVERED}
               => messages'[m].status = messages[m].status
      ]_vars

\* C8: a sweep flips to TIMEOUT exactly the history messages that are
\* PENDING with an elapsed timeout, adds their number to total_timeout and
\* changes nothing else of any message; no message ever returns to PENDING,
\* so none is counted twice.
SweepFlips ==
    {m \in Range(_message_history) :
        /\ messages[m].status = PENDING
        /\ messages[m].timeout # None
        /\ now - messages[m].created_at > messages[m].timeout[1]}

C8_SweepExact ==
    /\ [][_process_timeouts =>
            /\ \A m \in DOMAIN messages :
                   messages'[m] = IF m \in SweepFlips
                                  THEN [messages[m] EXCEPT !.status = TIMEOUT]
                                  ELSE messages[m]
            /\ _stats'.total_timeout
                   = _stats.total_timeout + Cardinality(SweepFlips)
         ]_vars
    /\ [][\A m \in DOMAIN messages :
            messages[m].status # PENDING => messages'[m].status # PENDING
         ]_vars

\* C8 witness: a sweep has flipped one message while a message without a
\* timeout stays PENDING and a delivered one with an elapsed timeout stays
\* DELIVERED.
C8_Witness ==
    /\ call.op = "_process_timeouts"
    /\ _stats.total_timeout = 1
    /\ \E m1, m2, m3 \in DOMAIN messages :
           /\ messages[m1].status = TIMEOUT
           /\ messages[m2].status = PENDING /\ messages[m2].timeout = None
           /\ messages[m3].status = DELIVERED /\ messages[m3].timeout # None
           /\ now - messages[m3].created_at > messages[m3].timeout[1]

\* C9: unregister_agent of a registered id returns True, after which (until
\* a register_agent of that id) its pending count is -1 and sends to it
\* return None and change nothing; unregister_agent of an unregistered id
\* returns False and changes nothing.
C9_Unregistered ==
    [][\A a \in AgentIds :
          /\ (a \in list_agents /\ unregister_agent(a)) =>
                 /\ call'.ret = TRUE
                 /\ get_pending_count(a)' = -1
                 /\ a \notin list_agents'
          /\ (a \notin list_agents /\ a \in list_agents') =>
                 call' = [op |-> "register_agent", arg |-> a, ret |-> TRUE, exc |-> None]
          /\ a \notin list_agents =>
                 /\ get_pending_count(a) = -1
                 /\ send_message("system", a, "general", NORMAL, None, None)
                        => call'.ret = None /\ UNCHANGED busvars
                 /\ unregister_agent(a)
                        => call'.ret = FALSE /\ UNCHANGED busvars
      ]_vars

\* C9 witness: an agent with a queued message was unregistered.
C9_Witness ==
    /\ call = [op |-> "unregister_agent", arg |-> "a1", ret |-> TRUE, exc |-> None]
    /\ \E m \in DOMAIN messages :
           messages[m].recipient = "a1" /\ discarded[m] = 1
    /\ get_pending_count("a1") = -1

\* C10: without clear_history, the history grows by exactly the message of
\* each send that returned an id, ids strictly increase along it, a send
\* that returns None changes no history, mailbox or counter, and total_sent
\* equals the history length.
IsSend ==
    \E r \in AgentIds : send_message("system", r, "general", NORMAL, None, None)

C10_HistoryIsSendLog ==
    /\ [](/\ _stats.total_sent = Len(_message_history)
          /\ \A i, j \in 1..Len(_message_history) :
                 i < j => StrLess(messages[_message_history[i]].id,
                                  messages[_message_history[j]].id))
    /\ [][/\ (IsSend /\ call'.ret # None) =>
                 /\ Len(_message_history') = Len(_message_history) + 1
                 /\ SubSeq(_message_history', 1, Len(_message_history))
                        = _message_history
                 /\ messages'[_message_history'[Len(_message_history')]].id
                        = call'.ret
                 /\ messages'[_message_history'[Len(_message_history')]].recipient
                        = call'.arg
          /\ (IsSend /\ call'.ret = None) =>
                 UNCHANGED <<_message_history, qheap, messages, _stats>>
          /\ (~IsSend /\ ~clear_history) => UNCHANGED _message_history
         ]_vars

\* C10 witness: after two sends that returned ids and one that returned
\* None (full mailbox), the history holds two messages.
C10_Witness ==
    /\ call.op = "send_message" /\ call.ret = None
    /\ call.arg \in list_agents
    /\ _message_counter = 3
    /\ Len(_message_history) = 2
    /\ _stats.total_sent = 2

\* C4: every message for which send_message returned an id is in exactly
\* one place: queued in its recipient's mailbox, obtained by exactly one
\* receive_message, or discarded by unregister_agent; two receivers never
\* hold the same message.
Occurrences(m) ==
    Cardinality({qi \in {<<q, i>> : q \in DOMAIN qheap, i \in 1..MaxQueueSize + 1} :
                    /\ qi[2] <= Len(qheap[qi[1]])
                    /\ qheap[qi[1]][qi[2]] = m})

C4_NoLossNoDuplication ==
    /\ \A m \in DOMAIN messages :
           /\ Occurrences(m) + obtained[m] + discarded[m] = 1
           /\ Occurrences(m) = 1 =>
                  /\ messages[m].recipient \in list_agents
                  /\ m \in Mailbox(messages[m].recipient)
    /\ \A t, u \in Threads :
           (t # u /\ loc[t].message # None) => loc[t].message # loc[u].message

\* C4 witness: two receivers are in receive_message on the same agent, one
\* holding a message, while an unregister_agent of that agent has drained
\* another message and a third message was returned earlier.
C4_Witness ==
    /\ \E t, u \in Threads :
           /\ t # u
           /\ pc[t] \in {"recv_stamp", "recv_status", "recv_stats"}
           /\ pc[u] = "recv_get"
    /\ \E m \in DOMAIN messages : discarded[m] = 1
    /\ \E m \in DOMAIN messages : obtained[m] = 1

\* the labels of ask between its two `with self._lock:` sections
AskBody == {"ask_request", "ask_response", "ask_finally"}

\* the labels of execute_tool between its two `with self._lock:` sections
ToolBody ==
    {"et_execute", "reg_get_instance", "reg_usage", "tool_execute",
     "route_list", "route_send", "et_log", "et_finally"}

\* C6: with a single caller, while ask runs between its status sections the
\* agent's status is "processing", while execute_tool does it is
\* "using_tool", and when either returns or raises (the tool body raising, the
\* registry refusing the tool, or access being denied) the status is the one
\* the agent had when the call began.
C6_StatusRestored ==
    [][\A t \in Threads :
          /\ (loc'[t].op = Some("ask") /\ pc'[t] \in AskBody)
                 => status'[loc'[t].self[1]] = "processing"
          /\ (loc'[t].op = Some("execute_tool") /\ pc'[t] \in ToolBody)
                 => status'[loc'[t].self[1]] = "using_tool"
          /\ (loc[t].op \in {Some("ask"), Some("execute_tool")}
              /\ pc'[t] = "idle")
                 => status'[Self(t)] = loc[t].entry_status[1]]_vars

\* execute_tool has raised the TypeError of the tool body and the agent is
\* idle again
C6_Witness ==
    /\ call.op = "execute_tool"
    /\ call.exc = Some("TypeError")
    /\ status[call.arg] = "idle"

\* the step thread t takes next, whatever operation it is in
ThreadStep(t) ==
    \/ LockSteps(t)
    \/ stop_join(t)
    \/ ConsumerSteps(t)
    \/ worker_loop(t)
    \/ worker_sweep(t)

\* thread t is inside an operation or a thread body
Running(t) == pc[t] \notin {"idle", "unstarted", "done"}

\* following who waits for whom from t, a thread that waits for nobody is
\* found within n hops
RECURSIVE Ends(_, _)
Ends(t, n) ==
    \/ WaitsFor(t) = None
    \/ n > 0 /\ Ends(WaitsFor(t)[1], n - 1)

LocksOf(t) ==
    {<<"agent", self>> : self \in {a \in DOMAIN agent_lock : agent_lock[a] = t}}
        \cup (IF _lock = t THEN {<<"bus">>} ELSE {})
        \cup (IF reg_lock = t THEN {<<"registry">>} ELSE {})

\* C5: no thread waits forever for an agent lock, the bus lock, the registry
\* lock or a join: the chain of threads waiting for one another from any
\* thread ends in a thread that waits for nobody, such a thread can take its
\* next step, and a thread outside every operation holds no lock.
C5_NoDeadlock ==
    /\ \A t \in AllThreads : Ends(t, Cardinality(AllThreads))
    /\ \A t \in AllThreads : Running(t) /\ CanRun(t) => ENABLED ThreadStep(t)
    /\ \A t \in AllThreads : ~Running(t) => LocksOf(t) = {}

\* stop_background_processing joins the processor with the agent lock held
\* while the processor needs that lock, and stop joins the worker with the
\* bus lock held while the worker needs that lock
C5_Witness ==
    /\ pc["t2"] = "stop_bg_join"
    /\ pc["k1"] = "pbm_begin"
    /\ WaitsFor("k1") = Some("t2")
    /\ pc["t3"] = "stop_join"
    /\ \E w \in Workers : pc[w] = "worker_sweep" /\ WaitsFor(w) = Some("t3")

(***************************************************************************)
(* MessageBus.get_message_history and get_agent_message_history (queries). *)
(* A Python slice seq[-limit:] with limit > 0 is the last limit elements,  *)
(* in the order of the list.                                               *)
(***************************************************************************)
get_message_history(limit) ==
    IF limit > 0 THEN LastN(_message_history, limit) ELSE _message_history

Involves(agent_id, m) ==
    messages[m].sender = agent_id \/ messages[m].recipient = agent_id

get_agent_message_history(agent_id, limit) ==
    LET agent_messages ==
            SelectSeq(_message_history, LAMBDA m : Involves(agent_id, m))
    IN  IF limit > 0 THEN LastN(agent_messages, limit) ELSE agent_messages

\* a query of the bus: it runs under the bus lock and changes nothing
Query(op, arg, ret) ==
    /\ _lock = NoThread
    /\ Called(op, arg, ret)
    /\ UNCHANGED <<busvars, threadvars, now, interpreter, obtained, discarded, hostvars>>

(***************************************************************************)
(* SpecHistory: messages between two agents and the system, and the two    *)
(* history queries with every limit in 1..MaxMessages.                     *)
(***************************************************************************)
Senders == AgentIds \cup {"system"}

InitHistory ==
    /\ BusInit({MaxQueueSize})
    /\ ThreadsIdle

NextHistory ==
    \/ \E a \in AgentIds : register_agent(a)
    \/ /\ _message_counter < MaxMessages
       /\ \E s \in Senders, r \in AgentIds :
              send_message(s, r, "general", NORMAL, None, None)
    \/ \E a \in AgentIds : receive_message(a)
    \/ \E limit \in 1..MaxMessages :
           Query("get_message_history", limit, get_message_history(limit))
    \/ \E a \in AgentIds, limit \in 1..MaxMessages :
           Query("get_agent_message_history", <<a, limit>>,
                 get_agent_message_history(a, limit))

SpecHistory == InitHistory /\ [][NextHistory]_vars

\* the positions of the history whose messages involve the agent
AgentPositions(agent_id) ==
    {i \in 1..Len(_message_history) : Involves(agent_id, _message_history[i])}

\* seq lists the set of history positions most recent first
MostRecentFirst(seq, positions, limit) ==
    /\ Len(seq) <= limit
    /\ Len(seq) = IF Cardinality(positions) < limit
                  THEN Cardinality(positions) ELSE limit
    /\ \A k \in 1..Len(seq) :
           \E i \in positions :
               /\ seq[k] = _message_history[i]
               /\ Cardinality({j \in positions : j > i}) = k - 1

\* C11: get_message_history(limit) and get_agent_message_history(agent_id,
\* limit) with limit > 0 return at most limit messages, the most recently
\* sent ones (of the agent, for the agent view), most recent first.
C11_MostRecentFirst ==
    /\ call.op = "get_message_history" =>
           MostRecentFirst(call.ret, 1..Len(_message_history), call.arg)
    /\ call.op = "get_agent_message_history" =>
           MostRecentFirst(call.ret, AgentPositions(call.arg[1]), call.arg[2])

\* C12: a receive_message that returns a message takes exactly that message
\* out of the agent's mailbox (the pending count drops by 1), sets its status
\* to DELIVERED and its delivered_at, adds 1 to total_delivered and leaves the
\* history, the other mailboxes, the other messages and the other counters
\* alone; a receive_message that returns None (unknown agent or empty
\* mailbox) changes no mailbox, message, history or counter.
C12_ReceiveFrame ==
    [][\A a \in AgentIds : receive_message(a) =>
          IF call'.ret = None
          THEN /\ a \notin list_agents \/ get_pending_count(a) = 0
               /\ UNCHANGED <<_queues, qheap, messages, _message_history,
                              _stats, _message_counter>>
          ELSE LET m == call'.ret[1]
               IN  /\ m \in Mailbox(a)
                   /\ Mailbox(a)' = Mailbox(a) \ {m}
                   /\ get_pending_count(a)' = get_pending_count(a) - 1
                   /\ \A b \in list_agents \ {a} :
                          qheap'[_queues[b]] = qheap[_queues[b]]
                   /\ messages' = [messages EXCEPT
                                      ![m].status = DELIVERED,
                                      ![m].delivered_at = Some(now)]
                   /\ _stats' = [_stats EXCEPT !.total_delivered = @ + 1]
                   /\ UNCHANGED <<_queues, _message_history, _message_counter>>
      ]_vars

\* C12 witness: a receive returned one of two queued messages; it is
\* DELIVERED and still in the history, the other is still pending.
C12_Witness ==
    /\ call.op = "receive_message"
    /\ call.ret # None
    /\ get_pending_count(call.arg) = 1
    /\ messages[call.ret[1]].status = DELIVERED
    /\ messages[call.ret[1]].delivered_at # None
    /\ call.ret[1] \in Range(_message_history)
    /\ _stats.total_delivered = 1

(***************************************************************************)
(* SpecCleanup: one caller (thread t1) declares agent a1, tells it         *)
(* messages, starts and stops its background processing and calls cleanup  *)
(* any number of times, while another thread pings the agent and the       *)
(* background processor runs.  Only cleanup unregisters the agent here.    *)
(***************************************************************************)
InitCleanup ==
    /\ BusInit({MaxQueueSize})
    /\ ThreadsIdle

CleanupCalls(t, self) ==
    \/ /\ _message_counter < MaxMessages
       /\ Len(message_queue[self]) < MaxMessages
       /\ tell_send(t, self)
    \/ start_background_processing(t, self)
    \/ \E op \in {"stop_background_processing", "cleanup"} :
           stop_bg_begin(t, self, op)

CleanupSteps(t) ==
    \/ tell_append(t)
    \/ stop_bg_join(t)
    \/ cleanup_lock(t)
    \/ cleanup_unregister(t)

NextCleanup ==
    \/ AgentVal_init("a", 1)
    \/ Exists("a_1") /\ CleanupCalls("t1", "a_1")
    \/ CleanupSteps("t1")
    \/ /\ _message_counter < MaxMessages
       /\ send_message_by("t3", "a2", "a_1", "ping")
    \/ ConsumerSteps("k1")

SpecCleanup == InitCleanup /\ [][NextCleanup]_vars

\* thread t takes a step of a cleanup call
CleanupStep(t) ==
    /\ pc'[t] # pc[t]
    /\ loc[t].op = Some("cleanup") \/ loc'[t].op = Some("cleanup")

\* thread t returns from or raises out of a cleanup call
CleanupEnds(t) ==
    CleanupStep(t) /\ pc'[t] = "idle"

\* C13: when a cleanup call ends the agent id is not in list_agents(), and
\* it is only a cleanup that takes it out; every step of a cleanup call made
\* after that (a second or later call) changes no bus state and the call
\* ends without an exception, whether or not background processing was
\* started.
C13_CleanupIdempotent ==
    [][\A t \in Threads :
          /\ CleanupEnds(t) =>
                 /\ Self(t) \notin list_agents'
                 /\ t \in Observed =>
                        call' = [op |-> "cleanup", arg |-> Self(t),
                                 ret |-> None, exc |-> None]
          /\ \A a \in list_agents \ list_agents' :
                 \E u \in Threads : CleanupEnds(u) /\ Self(u) = a
          /\ (CleanupStep(t) /\ Exists("a_1") /\ "a_1" \notin list_agents
              /\ (loc[t].self = Some("a_1") \/ loc'[t].self = Some("a_1")))
                 => UNCHANGED busvars
      ]_vars

\* C13 witness: a cleanup of a1, whose background processing was started,
\* has returned, and a second cleanup is at its unregister step with a
\* message in the history.
C13_Witness ==
    /\ call = [op |-> "cleanup", arg |-> "a_1", ret |-> None, exc |-> None]
    /\ pc["t1"] = "cleanup_unregister"
    /\ loc["t1"].op = Some("cleanup")
    /\ _processing_thread["a_1"] # None
    /\ "a_1" \notin list_agents
    /\ _message_history # <<>>

(***************************************************************************)
(* AgentVal.__del__: when the last reference to an agent object goes away  *)
(* (no caller is inside one of its methods and its processor thread, which *)
(* holds a reference, is not alive) cleanup runs and the object is freed.  *)
(***************************************************************************)
AgentVal_del(self) ==
    /\ \A t \in AllThreads :
           loc[t].self = Some(self) => t \in Consumers /\ ~is_alive(t)
    /\ _lock = NoThread
    /\ IF self \in DOMAIN _queues
       THEN Unregistering(self, loc)
       ELSE UNCHANGED <<_queues, qheap, _subscribers, discarded>>
    /\ status' = Without(status, self)
    /\ assigned_tools' = Without(assigned_tools, self)
    /\ message_queue' = Without(message_queue, self)
    /\ agent_lock' = Without(agent_lock, self)
    /\ _processing_thread' = Without(_processing_thread, self)
    /\ _stop_processing' = Without(_stop_processing, self)
    /\ object_id' = Without(object_id, self)
    /\ agent_attrs' = Without(agent_attrs, self)
    /\ Called("__del__", self, None)
    /\ UNCHANGED <<max_queue_size, _message_history, messages, _stats,
                   _message_counter, _delivery_times, threadvars, now, interpreter,
                   obtained, workervars, regvars>>

(***************************************************************************)
(* SpecIds: agent objects are declared under two names at any free         *)
(* address, told a message, cleaned up and freed, so that addresses are    *)
(* used again.                                                             *)
(***************************************************************************)
MaxAgents == 2          \* agent objects that exist at once

Names == {"a", "a_1"}

Addresses == {1, 10, 26}

InitIds ==
    /\ BusInit({MaxQueueSize})
    /\ ThreadsIdle

NextIds ==
    \/ /\ Cardinality(DOMAIN status) < MaxAgents
       /\ \E name \in Names, address \in Addresses : AgentVal_init(name, address)
    \/ \E self \in DOMAIN status :
           /\ _message_counter < MaxSends
           /\ Len(message_queue[self]) < MaxSends
           /\ tell_send("t1", self)
    \/ tell_append("t1")
    \/ \E self \in DOMAIN status : stop_bg_begin("t1", self, "cleanup")
    \/ cleanup_lock("t1")
    \/ cleanup_unregister("t1")
    \/ \E self \in DOMAIN status : AgentVal_del(self)

SpecIds == InitIds /\ [][NextIds]_vars

\* C14: the id of a newly constructed AgentVal is the id of no agent object
\* that exists, whatever the two declared names are, and it is not
\* registered with the bus, so the new agent is registered under its own id
\* with a new, empty mailbox; the mailboxes of different ids are different
\* queues, and an agent leaves the bus only by its own cleanup or
\* destruction.
C14_DistinctIds ==
    /\ [](\A a, b \in list_agents : a # b => _queues[a] # _queues[b])
    /\ [][/\ \A name \in Names, address \in Addresses :
                 AgentVal_init(name, address) =>
                     LET agent_id == AgentId(name, address)
                     IN  /\ agent_id \notin DOMAIN status
                         /\ agent_id \notin list_agents
                         /\ agent_id \in list_agents'
                         /\ qheap'[_queues'[agent_id]] = <<>>
                         /\ \A b \in list_agents :
                                /\ _queues'[b] = _queues[b]
                                /\ _queues'[agent_id] # _queues[b]
          /\ \A a \in list_agents \ list_agents' :
                 \/ AgentVal_del(a)
                 \/ \E t \in Threads : CleanupEnds(t) /\ Self(t) = a
         ]_vars

\* C14 witness: two agents declared with the same name exist, registered
\* under different ids; a message told to one is in its mailbox only.
C14_Witness ==
    /\ {AgentId("a", 10), AgentId("a", 26)} \subseteq DOMAIN status
    /\ {AgentId("a", 10), AgentId("a", 26)} \subseteq list_agents
    /\ AgentId("a", 10) # AgentId("a", 26)
    /\ get_pending_count(AgentId("a", 10)) = 1
    /\ get_pending_count(AgentId("a", 26)) = 0
    /\ call.op = "tell"

\* thread t is in ToolRegistry.execute_tool and its tool's execute returns
ToolReturns(t) ==
    /\ loc[t].entry_meta # None
    /\ pc[t] \in {"tool_execute", "route_list", "route_send"}
    /\ pc'[t] = "et_log"

\* thread t is in ToolRegistry.execute_tool and its tool's execute raises
ToolRaises(t) ==
    /\ loc[t].entry_meta # None
    /\ pc[t] = "tool_execute"
    /\ pc'[t] = "et_finally"

\* ToolRegistry.execute_tool of thread t raises NameError
ToolRefused(t) ==
    /\ pc[t] = "reg_get_instance"
    /\ pc'[t] = "et_finally"

\* C15: when ToolRegistry.execute_tool ends, the tool's usage_count is one
\* more than when the call began if the tool's execute returned, and
\* usage_count and last_used are what they were when the call began if the
\* tool's execute raised or the tool was refused with NameError.
C15_UsageOnlyOnSuccess ==
    [][\A t \in Threads :
          LET name == loc[t].tool_name[1]
              entry == loc[t].entry_meta[1]
          IN  /\ ToolReturns(t) =>
                     _tools'[name].usage_count = entry.usage_count + 1
              /\ ToolRaises(t) =>
                     /\ _tools'[name].usage_count = entry.usage_count
                     /\ _tools'[name].last_used = entry.last_used
              /\ ToolRefused(t) => UNCHANGED _tools
      ]_vars

(***************************************************************************)
(* SpecRegistry: threads t2 and t3 execute the registry's WebSearch tool   *)
(* through agent a_1 step by step, at the same time, while thread t1 calls *)
(* get_tool_instance and evicts the instance by disable_tool,              *)
(* unregister_tool and clear_registry (and enables and registers the tool  *)
(* again).                                                                 *)
(***************************************************************************)
MaxInstances == 2       \* tool objects constructed in the registry runs

RegistryBounded ==
    /\ instance_counter < MaxInstances
    /\ \A name \in DOMAIN _tools : _tools[name].usage_count < MaxToolUses
    /\ \A tool \in DOMAIN call_count : call_count[tool] < MaxToolUses

InitRegistry ==
    /\ BusInit({MaxQueueSize})
    /\ ThreadsIdle

RegistryCalls(t) ==
    \/ /\ RegistryBounded
       /\ get_tool_instance_by(t, "WebSearch")
    \/ is_tool_available_by(t, "WebSearch")
    \/ disable_tool(t, "WebSearch")
    \/ enable_tool(t, "WebSearch")
    \/ unregister_tool(t, "WebSearch")
    \/ register_tool(t, "WebSearch", AVAILABLE_TOOLS["WebSearch"])
    \/ clear_registry(t)

\* the steps of AgentVal.execute_tool on a tool of the registry
RegistrySteps(t) ==
    \/ has_tool_registry(t)
    \/ et_begin(t)
    \/ et_execute(t)
    \/ reg_get_instance(t)
    \/ reg_usage(t)
    \/ tool_execute(t)
    \/ et_log(t)
    \/ et_finally(t)

NextRegistry ==
    \/ AgentVal_init("a", 1)
    \/ /\ Exists("a_1")
       /\ RegistryBounded
       /\ \E t \in {"t2", "t3"} :
              has_tool_begin(t, "a_1", "execute_tool", "WebSearch", TRUE, None)
    \/ \E t \in {"t2", "t3"} : RegistrySteps(t)
    \/ RegistryCalls("t1")

SpecRegistry == InitRegistry /\ [][NextRegistry]_vars

\* the step is an eviction of the named tool's instance
Evicts(name) ==
    \E t \in Threads :
        \/ disable_tool(t, name)
        \/ unregister_tool(t, name)
        \/ clear_registry(t)

\* C16: a cached instance is replaced or dropped only by an eviction
\* (disable_tool, unregister_tool, clear_registry); every get_tool_instance,
\* called directly or by execute_tool, that obtains an instance obtains the
\* cached one; and a tool object is constructed only on a get that finds no
\* cached instance, one object per such get, which then is the cached one:
\* so between two evictions all callers, concurrent or not, share one
\* instance that was constructed once.
C16_OneInstance ==
    [][/\ \A name \in DOMAIN _instances :
              \/ name \in DOMAIN _instances' /\ _instances'[name] = _instances[name]
              \/ name \notin DOMAIN _instances' /\ Evicts(name)
       /\ \A t \in Threads :
              (pc[t] = "reg_get_instance" /\ pc'[t] = "reg_usage") =>
                  /\ loc[t].tool_name[1] \in DOMAIN _instances'
                  /\ loc'[t].tool_instance
                         = Some(_instances'[loc[t].tool_name[1]])
       /\ \A t \in Threads, name \in ToolNames :
              (get_tool_instance_by(t, name) /\ t \in Observed) =>
                  \/ call'.ret = None /\ ~is_tool_available(name)
                  \/ /\ name \in DOMAIN _instances'
                     /\ call'.ret = Some(_instances'[name])
       /\ instance_counter' # instance_counter =>
              /\ instance_counter' = instance_counter + 1
              /\ \E name \in DOMAIN _instances' \ DOMAIN _instances :
                     /\ _instances'[name].id = instance_counter'
                     /\ DOMAIN _instances' = DOMAIN _instances \cup {name}
      ]_vars

\* C16 witness: two threads were in execute_tool of the same tool before
\* either had counted its use, both hold the one instance that was
\* constructed, and a direct get_tool_instance returned that instance too.
C16_Witness ==
    /\ loc["t2"].tool_instance # None
    /\ loc["t2"].tool_instance = loc["t3"].tool_instance
    /\ loc["t2"].entry_meta[1].usage_count = 0
    /\ loc["t3"].entry_meta[1].usage_count = 0
    /\ call.op = "get_tool_instance"
    /\ call.ret = loc["t2"].tool_instance
    /\ instance_counter = 1

\* the named tool is registered and disabled
Disabled(name) == name \in DOMAIN _tools /\ ~_tools[name].enabled

\* C17: a disabled tool has no cached instance; while it is disabled
\* get_tool_instance returns None, is_tool_available returns False and the
\* registry's execute_tool raises NameError; disable_tool keeps the record
\* and drops the cached instance; and a get_tool_instance that finds no
\* cached instance (the first one after a disable and enable) returns an
\* object that was never constructed before.
C17_DisabledUnusable ==
    [][\A name \in ToolNames :
          /\ Disabled(name) => name \notin DOMAIN _instances
          /\ (Disabled(name) /\ get_tool_instance_by("t1", name)) =>
                 call'.ret = None
          /\ (Disabled(name) /\ is_tool_available_by("t1", name)) =>
                 call'.ret = FALSE
          /\ \A t \in Threads :
                 (/\ Disabled(name)
                  /\ pc[t] = "reg_get_instance"
                  /\ loc[t].tool_name = Some(name)
                  /\ pc'[t] # pc[t]) =>
                     /\ pc'[t] = "et_finally"
                     /\ loc'[t].exc = Some("NameError")
                     /\ UNCHANGED regvars
          /\ (name \in DOMAIN _tools /\ disable_tool("t1", name)) =>
                 /\ Disabled(name)'
                 /\ name \notin DOMAIN _instances'
                 /\ _tools' = [_tools EXCEPT ![name].enabled = FALSE]
          /\ (name \in DOMAIN _instances' /\ name \notin DOMAIN _instances) =>
                 /\ _instances'[name] \notin DOMAIN call_count
                 /\ \A other \in DOMAIN call_count :
                        other.id # _instances'[name].id
      ]_vars

\* C17 witness: the tool was used, disabled and enabled again, and the
\* get_tool_instance that followed returned the second object constructed;
\* the first one has been executed.
C17_Witness ==
    /\ call.op = "get_tool_instance"
    /\ call.ret # None
    /\ call.ret[1].id = 2
    /\ \A tool \in DOMAIN call_count :
           call_count[tool] = IF tool.id = 1 THEN 1 ELSE 0
    /\ "WebSearch" \in DOMAIN _tools
    /\ _tools["WebSearch"].usage_count = 1

\* C17 witness of the refusals: a thread's execute_tool found the tool
\* disabled and is about to raise NameError, after a get_tool_instance that
\* returned None
C17_WitnessRefused ==
    /\ Disabled("WebSearch")
    /\ call.op = "get_tool_instance"
    /\ call.ret = None
    /\ \E t \in Threads : /\ pc[t] = "et_finally"
                          /\ loc[t].exc = Some("NameError")

(***************************************************************************)
(* SpecTools: thread t1 assigns and removes local tools of agent a_1 and   *)
(* asks has_tool, while thread t3 registers, unregisters, enables and      *)
(* disables the tools of the registry.                                     *)
(***************************************************************************)
InitTools ==
    /\ BusInit({MaxQueueSize})
    /\ ThreadsIdle

ToolCalls(t, self) ==
    \/ \E tool_name \in ToolNames :
           has_tool_begin(t, self, "has_tool", tool_name, TRUE, None)
    \/ /\ instance_counter < MaxInstances
       /\ \E tool_name \in ToolNames : assign_tool(t, self, tool_name, <<>>)
    \/ \E tool_name \in ToolNames : remove_tool(t, self, tool_name)

RegistryAdmin(t) ==
    \E name \in ToolNames :
        \/ register_tool(t, name, "WebSearchTool")
        \/ unregister_tool(t, name)
        \/ enable_tool(t, name)
        \/ disable_tool(t, name)

NextTools ==
    \/ AgentVal_init("a", 1)
    \/ Exists("a_1") /\ ToolCalls("t1", "a_1")
    \/ has_tool_registry("t1")
    \/ RegistryAdmin("t3")

SpecTools == InitTools /\ [][NextTools]_vars

\* has_tool(name) of agent self returns in this step
HasToolReturns(t, self, name) ==
    \/ /\ Exists(self)
       /\ has_tool_begin(t, self, "has_tool", name, TRUE, None)
       /\ pc'[t] = "idle"
    \/ /\ pc[t] = "has_tool_registry"
       /\ loc[t].op = Some("has_tool")
       /\ loc[t].self = Some(self)
       /\ loc[t].tool_name = Some(name)
       /\ has_tool_registry(t)

AccessBounded ==
    /\ \A name \in DOMAIN _tools : _tools[name].usage_count < MaxInstances
    /\ \A tool \in DOMAIN call_count : call_count[tool] < MaxInstances

InitAccess ==
    /\ BusInit({MaxQueueSize})
    /\ ThreadsIdle

AccessCalls(t, self) ==
    \/ /\ AccessBounded
       /\ \E tool_name \in ToolNames, args_ok \in BOOLEAN :
              has_tool_begin(t, self, "execute_tool", tool_name, args_ok, None)
    \/ /\ instance_counter < MaxInstances
       /\ assign_tool(t, self, "AgentRouting", <<>>)
    \/ remove_tool(t, self, "AgentRouting")

NextAccess ==
    \/ AgentVal_init("a", 1)
    \/ Exists("a_1") /\ AccessCalls("t1", "a_1")
    \/ RegistrySteps("t1")
    \/ disable_tool("t1", "WebSearch")
    \/ enable_tool("t1", "WebSearch")

SpecAccess == InitAccess /\ [][NextAccess]_vars

\* execute_tool(name) of agent self gets the answer of its has_tool in this
\* step
ExecuteToolDecides(t, self, name) ==
    \/ /\ Exists(self)
       /\ \E args_ok \in BOOLEAN :
              has_tool_begin(t, self, "execute_tool", name, args_ok, None)
       /\ pc'[t] # "has_tool_registry"
    \/ /\ pc[t] = "has_tool_registry"
       /\ loc[t].op = Some("execute_tool")
       /\ loc[t].self = Some(self)
       /\ loc[t].tool_name = Some(name)
       /\ has_tool_registry(t)

C20_FullTellObservable ==
    [][\A t \in Threads :
          /\ (/\ pc[t] = "idle"
              /\ "a_1" \in DOMAIN _queues
              /\ Full(_queues["a_1"])
              /\ tell_send(t, "a_1")) =>
                 /\ pc'[t] = "tell_append"
                 /\ get_statistics' # get_statistics
          /\ (pc[t] = "tell_append" /\ pc'[t] = "idle") =>
                 /\ Len(message_queue'[Self(t)])
                        = Len(message_queue[Self(t)]) + 1
                 /\ t \in Observed => call'.exc = None
      ]_vars

(***************************************************************************)
(* MessageBus.broadcast_message.  The list of recipients is made in one    *)
(* section under the bus lock; each send_message of the loop takes the     *)
(* lock again.  The dict's key order is not kept by the model: the         *)
(* recipients are taken in any order.                                      *)
(***************************************************************************)
Perms(S) ==
    {seq \in [1..Cardinality(S) -> S] :
        \A i, j \in 1..Cardinality(S) : seq[i] = seq[j] => i = j}

\* [agent_id for agent_id in self._queues.keys()
\*  if agent_id != sender and agent_id not in exclude]
Recipients(sender, exclude) ==
    {agent_id \in DOMAIN _queues : agent_id # sender /\ agent_id \notin exclude}

BroadcastAbort(index, n, sent_id) ==
    IF sent_id = None THEN n ELSE index + 1

\* `for recipient in recipients:` the position after one pass of the body
BroadcastNext(index, n, sent_id) == index + 1

broadcast_begin(t, sender, exclude) ==
    /\ pc[t] = "idle"
    /\ _lock = NoThread
    /\ IF Recipients(sender, exclude) = {}
       THEN Return(t, "broadcast_message", <<sender, exclude>>, <<>>)
       ELSE /\ \E recipients \in Perms(Recipients(sender, exclude)) :
                   loc' = [loc EXCEPT ![t] =
                              [NoLocals EXCEPT !.op = Some("broadcast_message"),
                                               !.sender = Some(sender),
                                               !.agent_id = Some(exclude),
                                               !.recipients = recipients]]
            /\ Goto(t, "bc_send")
            /\ UNCHANGED call
    /\ UNCHANGED <<busdata, _lock, now, interpreter, hostvars>>

\* one pass of the loop: send_message and `if message_id:`; the return when
\* the list is exhausted
bc_send(t) ==
    /\ pc[t] = "bc_send"
    /\ CanRun(t)
    /\ LET locals == loc[t]
           recipient == locals.recipients[locals.index + 1]
           sent_id == SendResult(recipient)
           message_ids == IF sent_id # None
                          THEN Append(locals.message_ids, sent_id)
                          ELSE locals.message_ids
           index == BroadcastNext(locals.index, Len(locals.recipients),
                                  sent_id)
       IN  /\ Sending(locals.sender[1], recipient, "broadcast", NORMAL, None,
                      None)
           /\ IF index = Len(locals.recipients)
              THEN Return(t, "broadcast_message",
                          <<locals.sender[1], locals.agent_id[1]>>,
                          message_ids)
              ELSE /\ loc' = [loc EXCEPT ![t].index = index,
                                         ![t].message_ids = message_ids]
                   /\ UNCHANGED <<pc, call>>
    /\ UNCHANGED <<_lock, now, interpreter, hostvars>>

(***************************************************************************)
(* SpecBroadcast: thread t1 broadcasts, while thread t2 registers and      *)
(* unregisters the agents and sends to them, also between two sends of a   *)
(* broadcast.                                                              *)
(***************************************************************************)
InitBroadcast ==
    /\ BusInit(1..MaxQueueSize)
    /\ ThreadsIdle

NextBroadcast ==
    \/ \E a \in AgentIds : register_agent_by("t2", a)
    \/ \E a \in AgentIds : unregister_agent_by("t2", a)
    \/ /\ _message_counter < MaxMessages
       /\ \E r \in AgentIds : send_message_by("t2", "system", r, "general")
    \/ /\ _message_counter < MaxMessages
       /\ \E sender \in {"system", "a1"}, exclude \in {{}, {"a2"}} :
              broadcast_begin("t1", sender, exclude)
    \/ bc_send("t1")

SpecBroadcast == InitBroadcast /\ [][NextBroadcast]_vars

\* the recipient of this pass of the loop is registered and has room
Deliverable(recipient) ==
    recipient \in DOMAIN _queues /\ ~Full(_queues[recipient])

\* C21: broadcast_message lists the agents registered when it is called,
\* without the sender and the excluded ids, each once; every pass of its
\* loop enqueues one message in the mailbox of its recipient when the
\* recipient is registered and has room, and nothing otherwise, and goes on
\* to the next recipient in both cases; the list returned holds exactly the
\* ids of the messages enqueued.
C21_Broadcast ==
    [][\A t \in Observed :
          /\ \A sender \in {"system", "a1"}, exclude \in {{}, {"a2"}} :
                 broadcast_begin(t, sender, exclude) =>
                     /\ UNCHANGED busvars
                     /\ IF Recipients(sender, exclude) = {}
                        THEN call'.ret = <<>> /\ pc'[t] = "idle"
                        ELSE /\ Range(loc'[t].recipients)
                                    = Recipients(sender, exclude)
                             /\ Len(loc'[t].recipients)
                                    = Cardinality(Recipients(sender, exclude))
                             /\ loc'[t].index = 0
                             /\ loc'[t].message_ids = <<>>
          /\ (pc[t] = "bc_send" /\ bc_send(t)) =>
                 LET recipient == loc[t].recipients[loc[t].index + 1]
                     n == _message_counter + 1
                     message_ids ==
                         IF Deliverable(recipient)
                         THEN Append(loc[t].message_ids, message_id(n))
                         ELSE loc[t].message_ids
                 IN  /\ IF Deliverable(recipient)
                        THEN /\ n \notin DOMAIN messages
                             /\ messages'[n].recipient = recipient
                             /\ messages'[n].sender = loc[t].sender[1]
                             /\ messages'[n].id = message_id(n)
                             /\ n \in Range(qheap'[_queues[recipient]])
                             /\ Len(qheap'[_queues[recipient]])
                                    = qsize(_queues[recipient]) + 1
                             /\ \A q \in DOMAIN qheap \ {_queues[recipient]} :
                                    qheap'[q] = qheap[q]
                             /\ _message_history' = Append(_message_history, n)
                        ELSE UNCHANGED <<qheap, messages, _message_history,
                                         _stats>>
                     /\ UNCHANGED _queues
                     /\ IF loc[t].index + 1 = Len(loc[t].recipients)
                        THEN /\ pc'[t] = "idle"
                             /\ call'.op = "broadcast_message"
                             /\ call'.ret = message_ids
                             /\ call'.exc = None
                        ELSE /\ pc'[t] = "bc_send"
                             /\ loc'[t].recipients = loc[t].recipients
                             /\ loc'[t].index = loc[t].index + 1
                             /\ loc'[t].message_ids = message_ids
      ]_vars

\* C21 witness: a broadcast to a1 and a2 with nothing excluded; a1, taken
\* first, was full (attempt 2 failed) and a2 got message 3, the only id
\* returned.
C21_Witness ==
    /\ call.op = "broadcast_message"
    /\ call.arg = <<"system", {}>>
    /\ call.ret = <<message_id(3)>>
    /\ _message_counter = 3
    /\ DOMAIN messages = {1, 3}
    /\ {"a1", "a2"} \subseteq DOMAIN _queues
    /\ qheap[_queues["a1"]] = <<1>>
    /\ qheap[_queues["a2"]] = <<3>>

(***************************************************************************)
(* SpecLoops: threads t1 and t2 call start_background_processing,          *)
(* stop_background_processing and cleanup on agent a_1 in any              *)
(* interleaving, while the background processor runs and handles a ping.   *)
(***************************************************************************)
InitLoops ==
    /\ BusInit({MaxQueueSize})
    /\ ThreadsIdle

LoopCalls(t, self) ==
    \/ start_background_processing(t, self)
    \/ \E op \in {"stop_background_processing", "cleanup"} :
           stop_bg_begin(t, self, op)

LoopSteps(t) ==
    \/ stop_bg_join(t)
    \/ cleanup_lock(t)
    \/ cleanup_unregister(t)

ProcessorSteps(k) ==
    \/ bp_loop(k)
    \/ recv_lookup(k, Self(k))
    \/ recv_get(k)
    \/ recv_stamp(k)
    \/ recv_status(k)
    \/ recv_stats(k)
    \/ pbm_begin(k)
    \/ pbm_pong(k)
    \/ pbm_finally(k)

NextLoops ==
    \/ AgentVal_init("a", 1)
    \/ \E t \in {"t1", "t2"} : Exists("a_1") /\ LoopCalls(t, "a_1")
    \/ \E t \in {"t1", "t2"} : LoopSteps(t)
    \/ /\ _message_counter < MaxSends
       /\ send_message_by("t3", "a2", "a_1", "ping")
    \/ \E k \in Consumers : is_alive(k) /\ ProcessorSteps(k)

SpecLoops == InitLoops /\ [][NextLoops]_vars

\* the background processor threads of the agent that have not ended
LiveLoops(self) ==
    {k \in Consumers : pc[k] \notin {"unstarted", "done"}
                       /\ loc[k].self = Some(self)}

\* C22: an agent never has two live background processors; a
\* start_background_processing made while one is live returns False and
\* starts none, otherwise it starts one; a stop_background_processing made
\* while none is live returns False at once.
C22_OneLoop ==
    [][/\ \A self \in DOMAIN status' : Cardinality(LiveLoops(self)') <= 1
       /\ \A t \in {"t1", "t2"} :
              /\ (Exists("a_1") /\ start_background_processing(t, "a_1")) =>
                     IF LiveLoops("a_1") # {}
                     THEN /\ t \in Observed => call'.ret = FALSE
                          /\ UNCHANGED <<pc, loc, _processing_thread,
                                         _stop_processing>>
                     ELSE /\ t \in Observed => call'.ret = TRUE
                          /\ Cardinality(LiveLoops("a_1")') = 1
              /\ (/\ Exists("a_1")
                  /\ LiveLoops("a_1") = {}
                  /\ stop_bg_begin(t, "a_1", "stop_background_processing")) =>
                     /\ pc'[t] = "idle"
                     /\ t \in Observed => call'.ret = FALSE
                     /\ UNCHANGED <<_processing_thread, _stop_processing>>
      ]_vars

\* C22 witness: a stop was requested and its join timed out while the
\* processor was handling a message, so the processor is still live with
\* the stop flag set; the start_background_processing made then returned
\* False.
C22_Witness ==
    /\ call.op = "start_background_processing"
    /\ call.ret = FALSE
    /\ _stop_processing["a_1"]
    /\ LiveLoops("a_1") = {"k1"}
    /\ pc["k1"] = "pbm_finally"
    /\ pc["t2"] = "idle"

(***************************************************************************)
(* AgentVal.get_property and set_property.  A value is None or Some(v);    *)
(* the list of tool names is given as the set of the names.                *)
(***************************************************************************)
ReadOnlyNone == {}

\* `if name in ("status", "model", "name"):`
ReadOnly == {"status", "model", "name"}

GetProperty(self, name) ==
    IF name = "status" THEN Some(status[self])
    ELSE IF name = "model" THEN Some(agent_attrs[self].model)
    ELSE IF name = "name" THEN Some(agent_attrs[self].name)
    ELSE IF name = "tools" THEN Some(DOMAIN assigned_tools[self])
    ELSE IF name \in DOMAIN agent_attrs[self].properties
    THEN agent_attrs[self].properties[name]
    ELSE None

get_property(t, self, name) ==
    /\ pc[t] = "idle"
    /\ Returned(t, "get_property", <<self, name>>, GetProperty(self, name))
    /\ UNCHANGED <<busdata, threadvars, now, interpreter, hostvars>>

set_property(t, self, name, value) ==
    /\ pc[t] = "idle"
    /\ IF name \in ReadOnly
       THEN /\ IF t \in Observed
               THEN Raised("set_property", <<self, name>>, "RuntimeError")
               ELSE UNCHANGED call
            /\ UNCHANGED agent_attrs
       ELSE /\ agent_attrs' = [agent_attrs EXCEPT ![self].properties =
                                  (name :> value) @@ @]
            /\ Returned(t, "set_property", <<self, name>>, None)
    /\ UNCHANGED <<busdata, threadvars, now, interpreter, workervars, regvars, status,
                   assigned_tools, message_queue, agent_lock,
                   _processing_thread, _stop_processing, object_id>>

(***************************************************************************)
(* SpecProps: thread t1 gets and sets properties of agent a_1 and assigns  *)
(* and removes its tools, while thread t2 runs an ask on it.               *)
(***************************************************************************)
PropertyNames == {"status", "model", "name", "tools", "goal"}

Values == {None, Some("v1"), Some("v2")}

InitProps ==
    /\ BusInit({MaxQueueSize})
    /\ ThreadsIdle

PropCalls(t, self) ==
    \/ \E name \in PropertyNames : get_property(t, self, name)
    \/ \E name \in PropertyNames, value \in Values :
           set_property(t, self, name, value)
    \/ /\ instance_counter < MaxInstances
       /\ \E tool_name \in {"WebSearch", "AgentRouting"} :
              assign_tool(t, self, tool_name, <<>>)
    \/ \E tool_name \in {"WebSearch", "AgentRouting"} :
           remove_tool(t, self, tool_name)

NextProps ==
    \/ AgentVal_init("a", 1)
    \/ Exists("a_1") /\ PropCalls("t1", "a_1")
    \/ /\ Exists("a_1")
       /\ _message_counter < MaxSends
       /\ ask_begin("t2", "a_1", TRUE)
    \/ ask_request("t2")
    \/ ask_response("t2")
    \/ ask_finally("t2")

SpecProps == InitProps /\ [][NextProps]_vars

\* C23: set_property changes none of get_property's answers for status,
\* model, name and tools; on status, model and name it raises RuntimeError
\* and changes nothing of the agent; on any other name but tools the value
\* set is the value got afterwards; and get_property("tools") answers the
\* names of the assigned tools.
C23_Properties ==
    [][\A name \in PropertyNames :
          /\ \A value \in Values :
                 (Exists("a_1") /\ set_property("t1", "a_1", name, value)) =>
                     /\ \A system \in {"status", "model", "name", "tools"} :
                            GetProperty("a_1", system)'
                                = GetProperty("a_1", system)
                     /\ name \in {"status", "model", "name"} =>
                            /\ call'.exc = Some("RuntimeError")
                            /\ UNCHANGED agentvars
                     /\ name \notin {"status", "model", "name", "tools"} =>
                            /\ call'.exc = None
                            /\ GetProperty("a_1", name)' = value
          /\ (Exists("a_1") /\ get_property("t1", "a_1", name)) =>
                 /\ call'.ret = GetProperty("a_1", name)
                 /\ name = "tools" =>
                        call'.ret = Some(DOMAIN assigned_tools["a_1"])
                 /\ name = "status" => call'.ret = Some(status["a_1"])
                 /\ name = "name" => call'.ret = Some("a")
                 /\ name = "model" => call'.ret = Some(Model)
      ]_vars

\* C23 witness: "tools" and "goal" were set, a tool is assigned, an ask is
\* in progress, and get_property("tools") has just answered the assigned
\* names, not the value set.
C23_Witness ==
    /\ call = [op |-> "get_property", arg |-> <<"a_1", "tools">>,
               ret |-> Some({"WebSearch"}), exc |-> None]
    /\ agent_attrs["a_1"].properties
           = ("tools" :> Some("v1")) @@ ("goal" :> Some("v2"))
    /\ status["a_1"] = "processing"

\* the expression nodes a condition is made of: literals, and a
\* BooleanExpression with no operator (one operand)
StringValue(value) == <<"StringValue", value>>

NumberValue(value) == <<"NumberValue", value>>

BooleanValue(value) == <<"BooleanValue", value>>

BooleanExpression(left) == <<"BooleanExpression", left>>

\* the condition field of a statement that is no if statement
NoCondition == <<>>

(***************************************************************************)
(* AgenticScriptInterpreter (core/interpreter.py).  `interpreter` is the   *)
(* interpreter object (globals, variables, agents) together with its run:  *)
(* the program, the stack of statement loops that are executing (the loop  *)
(* of interpret, and above it the loop of each if statement entered), what *)
(* was printed, the exception that left interpret, and the call into an    *)
(* agent that is in progress.  A statement is a record of its node type    *)
(* and the fields the interpreter reads.                                   *)
(***************************************************************************)
Statement(type, name, attr, nargs, tool_name, condition, then_statements) ==
    [type |-> type, name |-> name, attr |-> attr, nargs |-> nargs,
     tool_name |-> tool_name, condition |-> condition,
     then_statements |-> then_statements, else_statements |-> <<>>]

\* agent <name> = spawn Agent{ model }
AgentDeclaration(name) ==
    Statement("AgentDeclaration", name, "", 0, "", NoCondition, <<>>)

\* *<agent_name>-><property_name> = "v1"
PropertyAssignment(agent_name, property_name) ==
    Statement("PropertyAssignment", agent_name, property_name, 0, "", NoCondition,
              <<>>)

\* <variable_name> = "v1"
AssignmentStatement(variable_name) ==
    Statement("AssignmentStatement", variable_name, "", 0, "", NoCondition, <<>>)

\* print(<name>)
PrintStatement(name) ==
    Statement("PrintStatement", name, "", 0, "", NoCondition, <<>>)

\* <object>.<method>(<nargs arguments>), the first one being tool_name for
\* has_tool and execute_tool
MethodCall(object, method, nargs, tool_name) ==
    Statement("ExpressionStatement", object, method, nargs, tool_name, NoCondition,
              <<>>)

\* if <condition> { then_statements }
IfStatement(condition, then_statements) ==
    Statement("IfStatement", "", "", 0, "", condition, then_statements)

\* if <condition> { then_statements } else { else_statements }
IfElseStatement(condition, then_statements, else_statements) ==
    [IfStatement(condition, then_statements)
        EXCEPT !.else_statements = else_statements]

\* a node that is none of the statement classes
UnknownStatement ==
    Statement("Unknown", "", "", 0, "", NoCondition, <<>>)

StringVal(value) == <<"string", value>>

NumberVal(value) == <<"number", value>>

BooleanVal(value) == <<"boolean", value>>

AgentRef(agent_id) == <<"agent", agent_id>>

\* AgenticScriptInterpreter.__init__, and the call of interpret(program)
NewInterpreter(program) ==
    [globals |-> <<>>, variables |-> <<>>, agents |-> <<>>,
     program |-> program,
     stack |-> IF program = <<>> THEN <<>>
               ELSE <<[statements |-> program, index |-> 1]>>,
     output |-> <<>>, error |-> None, pending |-> None]

\* the statement the innermost loop is at
Current ==
    LET frame == interpreter.stack[Len(interpreter.stack)]
    IN  frame.statements[frame.index]

\* the loops after the current statement is done: the innermost loop moves
\* on, and a loop that is exhausted returns into the one below it
RECURSIVE NextStatement(_)
NextStatement(stack) ==
    IF stack = <<>> THEN <<>>
    ELSE LET n == Len(stack)
         IN  IF stack[n].index < Len(stack[n].statements)
             THEN [stack EXCEPT ![n].index = @ + 1]
             ELSE NextStatement(SubSeq(stack, 1, n - 1))

UnwindStatement(stack) == NextStatement(stack)

\* an exception is caught nowhere in the interpreter: it leaves every loop
Unwind(stack) == <<>>

\* the exception exc propagates out of interpret
Fail(exc) ==
    interpreter' = [interpreter EXCEPT !.error = Some(exc),
                                       !.stack = Unwind(@),
                                       !.pending = None]

\* the statement is done
Done(changed) ==
    interpreter' = [changed EXCEPT !.stack = NextStatement(@),
                                   !.pending = None]

Methods == {"ask", "tell", "has_tool", "execute_tool"}

\* evaluate_method_call: `if len(args) < 1: raise InterpreterError(...)`,
\* the test of each of the four methods
ArityError(method_name, nargs) == nargs < 1

\* evaluate_expression of an Identifier: variables, then globals
Defined(name) ==
    name \in DOMAIN interpreter.variables \cup DOMAIN interpreter.globals

Lookup(name) ==
    IF name \in DOMAIN interpreter.variables
    THEN interpreter.variables[name]
    ELSE interpreter.globals[name]

\* str(value): StringVal.__str__ and AgentVal.__str__
Str(value) ==
    IF value[1] = "string" THEN value[2]
    ELSE LET self == value[2]
         IN  "Agent(" \o agent_attrs[self].name \o ", "
                 \o agent_attrs[self].model \o ", " \o status[self] \o ")"

\* what execute_agent_declaration prints, for fewer than ten agents
Spawned(name, count) ==
    "Agent '" \o name \o "' spawned successfully (id: agent_00"
        \o HexDigits[count + 1] \o ")"

\* what execute_property_assignment prints
PropertySet(property_name, agent_name) ==
    "Property '" \o property_name \o "' set on agent '" \o agent_name \o "'"

\* _to_python_value, then bool(): the truth of the Python value of a value
Truth(val) ==
    CASE val[1] = "string" -> val[2] # ""
      [] val[1] = "number" -> val[2] # 0
      [] val[1] = "boolean" -> val[2]

\* evaluate_expression of a literal or of a one-operand BooleanExpression
\* (evaluate_boolean_expression: BooleanVal(bool(left_py)))
RECURSIVE evaluate_expression(_)
evaluate_expression(expr) ==
    CASE expr[1] = "StringValue" -> StringVal(expr[2])
      [] expr[1] = "NumberValue" -> NumberVal(expr[2])
      [] expr[1] = "BooleanValue" -> BooleanVal(expr[2])
      [] expr[1] = "BooleanExpression" ->
             BooleanVal(Truth(evaluate_expression(expr[2])))

\* execute_if_statement: the value of a BooleanVal, and bool() of the value
\* object otherwise; the value classes define neither __bool__ nor
\* __len__, so bool() of such an object is True
should_execute(condition) ==
    LET condition_value == evaluate_expression(condition)
    IN  IF condition_value[1] = "boolean" THEN condition_value[2] ELSE TRUE

\* the interpreter is about to call into an agent for the statement
Calling(stmt) ==
    /\ interpreter' = [interpreter EXCEPT !.pending = Some(stmt)]
    /\ call' = NoCall

\* execute_statement, up to the statement's call into an agent if it has
\* one (AgentVal(...), set_property, ask, tell, has_tool, execute_tool)
execute_statement(t) ==
    /\ pc[t] = "idle"
    /\ interpreter.stack # <<>>
    /\ interpreter.pending = None
    /\ LET stmt == Current
       IN  CASE stmt.type = "AgentDeclaration" -> Calling(stmt)
             [] stmt.type = "PropertyAssignment" ->
                    IF stmt.name \notin DOMAIN interpreter.agents
                    THEN Fail("InterpreterError") /\ UNCHANGED call
                    ELSE Calling(stmt)
             [] stmt.type = "AssignmentStatement" ->
                    /\ Done([interpreter EXCEPT !.variables =
                                (stmt.name :> StringVal("v1")) @@ @])
                    /\ UNCHANGED call
             [] stmt.type = "IfStatement" ->
                    LET statements == IF should_execute(stmt.condition)
                                      THEN stmt.then_statements
                                      ELSE stmt.else_statements
                    IN  /\ IF statements = <<>>
                           THEN Done(interpreter)
                           ELSE interpreter' =
                                    [interpreter EXCEPT !.stack =
                                        Append(@, [statements |-> statements,
                                                   index |-> 1])]
                        /\ UNCHANGED call
             [] stmt.type = "PrintStatement" ->
                    /\ IF Defined(stmt.name)
                       THEN Done([interpreter EXCEPT !.output =
                                     Append(@, Str(Lookup(stmt.name)))])
                       ELSE Fail("InterpreterError")
                    /\ UNCHANGED call
             [] stmt.type = "ExpressionStatement" ->
                    IF stmt.name \notin DOMAIN interpreter.globals
                       \/ stmt.attr \notin Methods
                       \/ ArityError(stmt.attr, stmt.nargs)
                    THEN Fail("InterpreterError") /\ UNCHANGED call
                    ELSE Calling(stmt)
             [] OTHER -> Fail("InterpreterError") /\ UNCHANGED call
    /\ UNCHANGED <<busdata, threadvars, now, hostvars>>

\* the call into the agent that the statement makes
statement_calls(t) ==
    /\ pc[t] = "idle"
    /\ interpreter.pending # None
    /\ call = NoCall
    /\ LET stmt == interpreter.pending[1]
           self == IF stmt.name \in DOMAIN interpreter.agents
                   THEN interpreter.agents[stmt.name] ELSE ""
       IN  CASE stmt.type = "AgentDeclaration" ->
                    \E address \in Addresses : AgentVal_init(stmt.name, address)
             [] stmt.type = "PropertyAssignment" ->
                    set_property(t, self, stmt.attr, Some("v1"))
             [] stmt.attr = "ask" -> ask_begin(t, self, TRUE)
             [] stmt.attr = "tell" -> tell_send(t, self)
             [] stmt.attr = "has_tool" ->
                    has_tool_begin(t, self, "has_tool", stmt.tool_name, TRUE,
                                   None)
             [] stmt.attr = "execute_tool" ->
                    has_tool_begin(t, self, "execute_tool", stmt.tool_name,
                                   stmt.nargs = 2, None)

\* the call has returned or raised: the rest of the statement
statement_returns(t) ==
    /\ pc[t] = "idle"
    /\ interpreter.pending # None
    /\ call # NoCall
    /\ LET stmt == interpreter.pending[1]
       IN  IF call.exc # None
           THEN Fail(IF call.exc[1] = "RuntimeError" /\ call.op = "execute_tool"
                     THEN "InterpreterError" ELSE call.exc[1])
           ELSE CASE stmt.type = "AgentDeclaration" ->
                         Done([interpreter EXCEPT
                                  !.globals = (stmt.name :> AgentRef(call.arg))
                                                  @@ @,
                                  !.agents = (stmt.name :> call.arg) @@ @,
                                  !.output =
                                      Append(@, Spawned(stmt.name,
                                          Cardinality(DOMAIN interpreter.agents
                                                      \cup {stmt.name})))])
                  [] stmt.type = "PropertyAssignment" ->
                         Done([interpreter EXCEPT
                                  !.output =
                                      Append(@, PropertySet(stmt.attr,
                                                            stmt.name))])
                  [] OTHER -> Done(interpreter)
    /\ UNCHANGED <<busdata, threadvars, now, call, hostvars>>

\* interpret(program) is called on a new interpreter, for any of the programs
Interpreting(programs) ==
    /\ pc = [t \in AllThreads |->
                IF t \in Threads THEN "idle" ELSE "unstarted"]
    /\ loc = [t \in AllThreads |-> NoLocals]
    /\ HostInit
    /\ interpreter \in {NewInterpreter(program) : program \in programs}

(***************************************************************************)
(* SpecMethods: programs that spawn an agent and call one of its methods   *)
(* with 0 to MaxArgs arguments.                                            *)
(***************************************************************************)
MaxArgs == 2            \* arguments of a method call

CalledTools == {"WebSearch", "NoSuchTool"}

MethodPrograms ==
    {<<AgentDeclaration("a"), MethodCall("a", method, nargs, tool_name)>> :
        method \in Methods, nargs \in 0..MaxArgs, tool_name \in CalledTools}

InitMethods ==
    /\ BusInit({MaxQueueSize})
    /\ Interpreting(MethodPrograms)

MethodSteps(t) ==
    \/ ask_request(t)
    \/ ask_response(t)
    \/ ask_finally(t)
    \/ tell_append(t)
    \/ RegistrySteps(t)

NextMethods ==
    \/ execute_statement("t1")
    \/ statement_calls("t1")
    \/ MethodSteps("t1")
    \/ statement_returns("t1")

SpecMethods == InitMethods /\ [][NextMethods]_vars

\* the arity rule as stated: ask, has_tool and execute_tool take at least
\* one argument, tell takes exactly one
ArityAccepted(method_name, nargs) ==
    IF method_name = "tell" THEN nargs = 1 ELSE nargs >= 1

\* the interpreter executes a method call on an agent
AtMethodCall ==
    /\ interpreter.stack # <<>>
    /\ interpreter.pending = None
    /\ Current.type = "ExpressionStatement"
    /\ Current.name \in DOMAIN interpreter.globals

\* C24: a method call on an agent fails with an arity error, and the agent
\* operation is not invoked, exactly when ask has 0 arguments, tell has a
\* number of arguments other than 1, has_tool has 0 arguments or
\* execute_tool has 0 arguments; in every other case the call goes ahead.
C24_Arity ==
    [][AtMethodCall /\ execute_statement("t1")
       => IF ArityAccepted(Current.attr, Current.nargs)
          THEN /\ interpreter'.pending = Some(Current)
               /\ interpreter'.error = None
          ELSE /\ interpreter'.error = Some("InterpreterError")
               /\ interpreter'.pending = None
               /\ interpreter'.stack = <<>>]_vars

(***************************************************************************)
(* SpecInterpret: interpret runs any program of up to MaxStatements        *)
(* statements that declares each agent once.  The statements are an agent  *)
(* declaration, a property assignment, a variable assignment, a print, a   *)
(* node of no statement class, method calls (tell without and with its     *)
(* argument, execute_tool of a tool the agent cannot use) and if           *)
(* statements with a true or false condition over two-statement branches.  *)
(***************************************************************************)
MaxStatements == 3      \* statements of a program

SimpleStatements ==
    {AgentDeclaration("a"), PropertyAssignment("a", "goal"),
     AssignmentStatement("x"), PrintStatement("x"), UnknownStatement,
     MethodCall("a", "tell", 0, ""), MethodCall("a", "tell", 1, ""),
     MethodCall("a", "execute_tool", 1, "NoSuchTool")}

IfStatements ==
    {IfStatement(condition, <<first, second>>) :
        condition \in {BooleanValue(TRUE), BooleanValue(FALSE)},
        first \in {PrintStatement("x"), UnknownStatement},
        second \in {AssignmentStatement("x"), PrintStatement("x")}}

Declarations(program) ==
    {i \in DOMAIN program : program[i].type = "AgentDeclaration"}

Programs ==
    {program \in UNION {[1..n -> SimpleStatements \cup IfStatements] :
                           n \in 1..MaxStatements} :
        Cardinality(Declarations(program)) <= 1}

InitInterpret ==
    /\ BusInit({MaxQueueSize})
    /\ Interpreting(Programs)

NextInterpret ==
    \/ execute_statement("t1")
    \/ statement_calls("t1")
    \/ tell_append("t1")
    \/ has_tool_registry("t1")
    \/ statement_returns("t1")

SpecInterpret == InitInterpret /\ [][NextInterpret]_vars

\* an exception has left interpret
Aborted == interpreter.error # None

\* C25: when a statement raises (a node of no statement class, an undefined
\* identifier, a missing agent, an arity violation, a refused tool),
\* interpret stops: the raise itself leaves what the earlier statements
\* did in place (agents, properties, variables, printed lines, the bus),
\* every loop is left, also the branch of an if statement, and from then
\* on nothing is executed: no agent is created, no property set, no
\* variable bound and nothing printed.
C25_Abort ==
    [][/\ ~Aborted /\ Aborted'
          => /\ interpreter'.stack = <<>>
             /\ interpreter'.pending = None
             /\ interpreter'.globals = interpreter.globals
             /\ interpreter'.variables = interpreter.variables
             /\ interpreter'.agents = interpreter.agents
             /\ interpreter'.output = interpreter.output
             /\ UNCHANGED <<busdata, agentvars, regvars>>
       /\ Aborted => UNCHANGED <<interpreter, busdata, agentvars, regvars>>
      ]_vars

\* the second statement fails inside an if branch: the agent declared by
\* the first statement is there, the rest of the branch and the third
\* statement did nothing
C25_Witness ==
    /\ interpreter.program
           = <<AgentDeclaration("a"),
               IfStatement(BooleanValue(TRUE),
                           <<UnknownStatement, AssignmentStatement("x")>>),
               PropertyAssignment("a", "goal")>>
    /\ interpreter.error = Some("InterpreterError")
    /\ interpreter.stack = <<>>
    /\ interpreter.agents = ("a" :> "a_1")
    /\ interpreter.variables = <<>>
    /\ interpreter.output
           = <<"Agent 'a' spawned successfully (id: agent_001)">>
    /\ agent_attrs["a_1"].properties = <<>>

(***************************************************************************)
(* SpecStatus: threads t1 and t2 call ask and execute_tool on agent a_1 in *)
(* any interleaving of their steps, while the agent's background processor *)
(* (started by t3) receives the requests the asks send and handles them.   *)
(***************************************************************************)
InitStatus ==
    /\ BusInit({MaxQueueSize})
    /\ ThreadsIdle

StatusCalls(t, self) ==
    \/ /\ _message_counter < MaxMessages
       /\ ask_begin(t, self, TRUE)
    \/ /\ _message_counter < MaxMessages
       /\ AccessBounded
       /\ has_tool_begin(t, self, "execute_tool", "WebSearch", TRUE, None)

StatusSteps(t) ==
    \/ ask_request(t)
    \/ ask_response(t)
    \/ ask_finally(t)
    \/ has_tool_registry(t)
    \/ et_begin(t)
    \/ et_execute(t)
    \/ reg_get_instance(t)
    \/ reg_usage(t)
    \/ tool_execute(t)
    \/ et_log(t)
    \/ et_finally(t)

HandlerSteps(k) ==
    \/ bp_loop(k)
    \/ recv_lookup(k, Self(k))
    \/ recv_get(k)
    \/ recv_stamp(k)
    \/ recv_status(k)
    \/ recv_stats(k)
    \/ pbm_begin(k)
    \/ pbm_finally(k)

NextStatus ==
    \/ AgentVal_init("a", 1)
    \/ \E t \in {"t1", "t2"} : Exists("a_1") /\ StatusCalls(t, "a_1")
    \/ \E t \in {"t1", "t2"} : StatusSteps(t)
    \/ /\ Exists("a_1")
       /\ ~AlreadyRunning("a_1")
       /\ start_background_processing("t3", "a_1")
    \/ \E k \in Consumers : is_alive(k) /\ HandlerSteps(k)

SpecStatus == InitStatus /\ [][NextStatus]_vars

\* thread t is in ask, execute_tool or _process_background_message on the
\* agent, after the section that saves and sets the status and before the
\* one that restores it
InFlight(t, self) ==
    /\ loc[t].self = Some(self)
    /\ loc[t].old_status # None

Transitions(self) == {t \in AllThreads : InFlight(t, self)}

\* C26: at most one operation of an agent is between setting the status and
\* restoring it, and the prior status an operation has recorded is never the
\* "processing" or "using_tool" that another such operation wrote.
C26_OneTransition ==
    \A self \in DOMAIN status :
        /\ Cardinality(Transitions(self)) <= 1
        /\ \A t \in Transitions(self) :
               loc[t].old_status \notin {Some("processing"), Some("using_tool")}

\* C27: when no ask, execute_tool or message handler is in progress on an
\* agent that was idle, its status is "idle".
C27_IdleWhenQuiet ==
    \A self \in DOMAIN status :
        (\A t \in AllThreads :
             loc[t].self = Some(self) => pc[t] \in {"idle", "bp_loop",
                                                   "bp_receive", "done"})
            => status[self] = "idle"

(***************************************************************************)
(* SpecSweep: thread t1 calls receive_message("a1") step by step while     *)
(* messages with and without a timeout are sent, time passes and the       *)
(* timeout sweep runs between any two of its steps.                        *)
(***************************************************************************)
InitSweep ==
    /\ BusInit({MaxQueueSize})
    /\ ThreadsIdle

NextSweep ==
    \/ register_agent("a1")
    \/ /\ _message_counter < MaxMessages
       /\ \E to \in Timeouts :
              send_message("system", "a1", "general", NORMAL, to, None)
    \/ recv_lookup("t1", "a1")
    \/ recv_get("t1")
    \/ recv_stamp("t1")
    \/ recv_status("t1")
    \/ recv_stats("t1")
    \/ _process_timeouts
    \/ Tick

SpecSweep == InitSweep /\ [][NextSweep]_vars

\* C28: a message that receive_message has returned is never afterwards set
\* to TIMEOUT, and no message is counted both in total_delivered and in
\* total_timeout: the two counters together never exceed the number of
\* messages sent.
C28_DeliveredOrTimeout ==
    /\ [][\A m \in DOMAIN messages :
            (messages[m].status = DELIVERED /\ obtained[m] > 0
             /\ loc["t1"].message # Some(m))
                => messages'[m].status # TIMEOUT]_vars
    /\ [](_stats.total_delivered + _stats.total_timeout
              <= Cardinality(DOMAIN messages))

\* the locks the step that thread t is at takes for its section
Acquires(t) ==
    IF pc[t] \in AgentLockSteps THEN {<<"agent", Self(t)>>}
    ELSE IF pc[t] \in BusLockSteps THEN {<<"bus">>}
    ELSE IF pc[t] \in RegistryLockSteps THEN {<<"registry">>}
    ELSE {}

\* C29: no thread holds more than one of the agent locks, the bus lock and
\* the registry lock at a time: a step that takes one of them is taken by a
\* thread that holds no other lock.
C29_OneLockAtATime ==
    [][\A t \in AllThreads :
          pc'[t] # pc[t] => Cardinality(LocksOf(t) \cup Acquires(t)) <= 1
      ]_vars

(***************************************************************************)
(* SpecWorkers: thread t1 calls start() and stop() on the bus in any       *)
(* order and at any time while the worker threads run their loop, messages *)
(* with and without a timeout are sent and time passes.                    *)
(***************************************************************************)
InitWorkers ==
    /\ BusInit({MaxQueueSize})
    /\ ThreadsIdle

NextWorkers ==
    \/ start("t1")
    \/ stop_begin("t1")
    \/ stop_join("t1")
    \/ \E w \in Workers : worker_loop(w)
    \/ \E w \in Workers : worker_sweep(w)
    \/ register_agent("a1")
    \/ /\ _message_counter < MaxSends
       /\ \E to \in Timeouts :
              send_message("system", "a1", "general", NORMAL, to, None)
    \/ Tick

SpecWorkers == InitWorkers /\ [][NextWorkers]_vars

\* C30: the bus has at most one worker loop running: start() changes
\* nothing while the flag is set, and a worker that finds its loop
\* condition true and goes on to sweep is the current worker of the bus,
\* with no other worker alive beside it.
C30_OneWorker ==
    [][/\ (_running /\ start("t1")) => UNCHANGED <<_running, _worker_thread, pc>>
       /\ \A w \in Workers :
              (pc[w] = "worker_loop" /\ pc'[w] = "worker_sweep")
                  => /\ _worker_thread = Some(w)
                     /\ \A v \in Workers \ {w} : ~is_alive(v)
      ]_vars

\* the history holds a message of the type from the sender to the recipient
Logged(message_type, sender, recipient) ==
    \E m \in Range(_message_history) :
        /\ messages[m].message_type = message_type
        /\ messages[m].sender = sender
        /\ messages[m].recipient = recipient

\* C31: when ask returns its response the bus history holds an
\* "ask_request" message from "system" to the agent and an "ask_response"
\* message from the agent to "system", and when execute_tool returns its
\* result the history holds a "tool_usage" message from the agent to
\* "system".
C31_Logged ==
    [][\A t \in Threads : \A self \in DOMAIN status :
          /\ (/\ pc[t] = "ask_finally" /\ pc'[t] = "idle"
              /\ loc[t].exc = None /\ self = Self(t))
                 => /\ Logged("ask_request", "system", self)'
                    /\ Logged("ask_response", self, "system")'
          /\ (/\ pc[t] = "et_finally" /\ pc'[t] = "idle"
              /\ loc[t].exc = None /\ self = Self(t))
                 => Logged("tool_usage", self, "system")'
      ]_vars

\* C32: no step of ask changes get_pending_count of the agent, so asks
\* leave the room of the agent's mailbox to later tells.
C32_AskFrame ==
    [][\A t \in Threads : \A self \in DOMAIN status :
          (/\ pc[t] \in AskBody /\ pc'[t] # pc[t] /\ self = Self(t))
              => get_pending_count(self)' = get_pending_count(self)
      ]_vars

(***************************************************************************)
(* MessageBus.subscribe_to_messages and unsubscribe_from_messages.  The    *)
(* callbacks of an agent are a list: a callback can be subscribed twice,   *)
(* and list.remove takes out its first occurrence or raises ValueError.    *)
(***************************************************************************)
MaxSubscriptions == 2    \* longest callback list of one agent
Callbacks == {"cb1", "cb2"}

\* sum(len(subs) for subs in self._subscribers.values())
RECURSIVE TotalSubscriptions(_)
TotalSubscriptions(subscribers) ==
    IF DOMAIN subscribers = {} THEN 0
    ELSE LET a == CHOOSE x \in DOMAIN subscribers : TRUE
         IN  Len(subscribers[a]) + TotalSubscriptions(Without(subscribers, a))

\* list.remove(callback)
RECURSIVE list_remove(_, _)
list_remove(list, x) ==
    IF list = <<>> THEN <<>>
    ELSE IF Head(list) = x THEN Tail(list)
    ELSE <<Head(list)>> \o list_remove(Tail(list), x)

subscribe_to_messages(agent_id, callback) ==
    /\ _lock = NoThread
    /\ IF agent_id \notin DOMAIN _subscribers
       THEN /\ Called("subscribe_to_messages", agent_id, FALSE)
            /\ UNCHANGED <<_subscribers, _stats>>
       ELSE /\ _subscribers' = [_subscribers EXCEPT
                                   ![agent_id] = Append(@, callback)]
            /\ _stats' = [_stats EXCEPT !.active_subscriptions =
                             TotalSubscriptions(_subscribers')]
            /\ Called("subscribe_to_messages", agent_id, TRUE)
    /\ UNCHANGED <<max_queue_size, _queues, qheap, _message_history, messages,
                   _message_counter, _delivery_times, _lock, now, interpreter,
                   pc, loc, obtained, discarded, hostvars>>

unsubscribe_from_messages(agent_id, callback) ==
    /\ _lock = NoThread
    /\ IF \/ agent_id \notin DOMAIN _subscribers
          \/ callback \notin Range(_subscribers[agent_id])
       THEN /\ Called("unsubscribe_from_messages", agent_id, FALSE)
            /\ UNCHANGED <<_subscribers, _stats>>
       ELSE /\ _subscribers' = [_subscribers EXCEPT
                                   ![agent_id] = list_remove(@, callback)]
            /\ _stats' = [_stats EXCEPT !.active_subscriptions =
                             TotalSubscriptions(_subscribers')]
            /\ Called("unsubscribe_from_messages", agent_id, TRUE)
    /\ UNCHANGED <<max_queue_size, _queues, qheap, _message_history, messages,
                   _message_counter, _delivery_times, _lock, now, interpreter,
                   pc, loc, obtained, discarded, hostvars>>

(***************************************************************************)
(* SpecSubscribe: agents are registered and unregistered and callbacks are *)
(* subscribed and unsubscribed, in any order.                              *)
(***************************************************************************)
InitSubscribe ==
    /\ BusInit({MaxQueueSize})
    /\ ThreadsIdle

NextSubscribe ==
    \/ \E a \in AgentIds : register_agent(a)
    \/ \E a \in AgentIds : unregister_agent(a)
    \/ \E a \in AgentIds, callback \in Callbacks :
           /\ a \in DOMAIN _subscribers => Len(_subscribers[a]) < MaxSubscriptions
           /\ subscribe_to_messages(a, callback)
    \/ \E a \in AgentIds, callback \in Callbacks :
           unsubscribe_from_messages(a, callback)

SpecSubscribe == InitSubscribe /\ [][NextSubscribe]_vars

\* C33: get_statistics().active_subscriptions is the number of callbacks
\* registered over all registered agents, in every reachable state.
C33_ActiveSubscriptions ==
    get_statistics.active_subscriptions = TotalSubscriptions(_subscribers)

(***************************************************************************)
(* ToolRegistry.register_plugin and unregister_plugin.  The tools of a     *)
(* plugin are given as a set of names of one tool class; the returned list *)
(* is read as the set of its names.  register_tool_tags is register_tool   *)
(* called with a tags argument.                                            *)
(***************************************************************************)
Plugins == {"p1", "p2"}
PluginSets == {{"Translate"}, {"Translate", "Calculator"}}

\* the metadata register_plugin passes to register_tool
PluginMetadata(tool_class, plugin_name) ==
    [ToolMetadata(tool_class, {"plugin", plugin_name})
        EXCEPT !.author = plugin_name]

register_tool_tags(t, name, tool_class, tags) ==
    /\ pc[t] = "idle"
    /\ reg_lock = NoThread
    /\ IF name \in DOMAIN _tools
       THEN /\ Returned(t, "register_tool", name, FALSE)
            /\ UNCHANGED _tools
       ELSE /\ _tools' = _tools @@ (name :> ToolMetadata(tool_class, tags))
            /\ Returned(t, "register_tool", name, TRUE)
    /\ UNCHANGED <<busdata, threadvars, now, interpreter, workervars, agentvars,
                   _instances, reg_lock, instance_counter, call_count>>

register_plugin(t, plugin_name, tools) ==
    LET registered == {name \in tools : name \notin DOMAIN _tools}
    IN  /\ pc[t] = "idle"
        /\ reg_lock = NoThread
        /\ _tools' = _tools @@ [name \in registered |->
                                   PluginMetadata("PluginTool", plugin_name)]
        /\ Returned(t, "register_plugin", plugin_name, registered)
        /\ UNCHANGED <<busdata, threadvars, now, interpreter, workervars,
                       agentvars, _instances, reg_lock, instance_counter,
                       call_count>>

\* plugin_tools: the names whose tags hold plugin_name
plugin_tools(plugin_name) ==
    {name \in DOMAIN _tools : plugin_name \in _tools[name].tags}

unregister_plugin(t, plugin_name) ==
    LET unregistered == plugin_tools(plugin_name)
    IN  /\ pc[t] = "idle"
        /\ reg_lock = NoThread
        /\ _tools' = [name \in DOMAIN _tools \ unregistered |-> _tools[name]]
        /\ _instances' = [name \in DOMAIN _instances \ unregistered |->
                             _instances[name]]
        /\ Returned(t, "unregister_plugin", plugin_name, unregistered)
        /\ UNCHANGED <<busdata, threadvars, now, interpreter, workervars,
                       agentvars, reg_lock, instance_counter, call_count>>

(***************************************************************************)
(* SpecPlugins: plugins are registered and unregistered while tools are    *)
(* also registered directly, with and without a plugin's name among their  *)
(* tags, and unregistered one by one.                                      *)
(***************************************************************************)
InitPlugins ==
    /\ BusInit({MaxQueueSize})
    /\ ThreadsIdle

NextPlugins ==
    \/ \E plugin_name \in Plugins, tools \in PluginSets :
           register_plugin("t1", plugin_name, tools)
    \/ \E plugin_name \in Plugins : unregister_plugin("t1", plugin_name)
    \/ \E name \in {"Translate", "Summarize"}, tags \in {{}, {"p1"}} :
           register_tool_tags("t1", name, "DirectTool", tags)
    \/ \E name \in {"Translate", "Summarize", "Calculator"} :
           unregister_tool("t1", name)
    \/ instance_counter < MaxInstances /\ get_tool_instance_by("t1", "Translate")

SpecPlugins == InitPlugins /\ [][NextPlugins]_vars

\* the tools registered through register_plugin(plugin_name, ...) that are
\* still registered (register_plugin names the plugin as their author, and
\* no other registration of SpecPlugins names an author)
RegisteredThrough(plugin_name) ==
    {name \in DOMAIN _tools : _tools[name].author = plugin_name}

\* C34: unregister_plugin(P) removes exactly the tools registered through
\* register_plugin(P, ...) that are still registered and returns their
\* names, leaving every other tool as it was; register_plugin returns the
\* names it registered and leaves every tool already present as it was.
C34_PluginTools ==
    [][\A plugin_name \in Plugins :
          /\ unregister_plugin("t1", plugin_name) =>
                 /\ call'.ret = RegisteredThrough(plugin_name)
                 /\ DOMAIN _tools' =
                        DOMAIN _tools \ RegisteredThrough(plugin_name)
                 /\ \A name \in DOMAIN _tools' : _tools'[name] = _tools[name]
          /\ \A tools \in PluginSets :
                 register_plugin("t1", plugin_name, tools) =>
                     /\ call'.ret = DOMAIN _tools' \ DOMAIN _tools
                     /\ \A name \in DOMAIN _tools : _tools'[name] = _tools[name]
      ]_vars

(***************************************************************************)
(* SpecConsume: the background consumer of agent a_1 runs and is never     *)
(* stopped, while "tell" and "ping" messages are sent to the agent by the  *)
(* registered agent a2, whose own mailbox also gets messages and is never  *)
(* read.  The consumer thread is scheduled fairly.                         *)
(***************************************************************************)
InitConsume ==
    /\ BusInit({MaxQueueSize})
    /\ ThreadsIdle

NextConsume ==
    \/ AgentVal_init("a", 1)
    \/ register_agent_by("t3", "a2")
    \/ Exists("a_1") /\ start_background_processing("t1", "a_1")
    \/ /\ _message_counter < MaxMessages
       /\ \E message_type \in {"tell", "ping"} :
              send_message_by("t3", "a2", "a_1", message_type)
    \/ /\ _message_counter < MaxMessages
       /\ send_message_by("t3", "a_1", "a2", "general")
    \/ is_alive("k1") /\ ConsumerSteps("k1")

SpecConsume ==
    InitConsume /\ [][NextConsume]_vars /\ WF_vars(ConsumerSteps("k1"))

\* message n of the type was sent successfully by a2 to agent a_1, a2 is
\* registered and the agent's consumer is running
SentToConsumer(n, message_type) ==
    /\ n \in Range(_message_history)
    /\ messages[n].message_type = message_type
    /\ messages[n].sender = "a2"
    /\ messages[n].recipient = "a_1"
    /\ "a2" \in DOMAIN _queues
    /\ LiveLoops("a_1") # {}

\* the consumer appended message n to the agent's backup log
InBackupLog(n) ==
    /\ n \in DOMAIN messages
    /\ Exists("a_1")
    /\ \E i \in 1..Len(message_queue["a_1"]) :
           message_queue["a_1"][i].message_id = messages[n].id

\* a pong that answers message n is in the mailbox of a2
PongPending(n) ==
    /\ n \in DOMAIN messages
    /\ "a2" \in DOMAIN _queues
    /\ \E m \in Mailbox("a2") :
           /\ messages[m].message_type = "pong"
           /\ messages[m].response_to = Some(messages[n].id)

TellsLogged ==
    \A n \in 1..(2 * MaxMessages) : SentToConsumer(n, "tell") ~> InBackupLog(n)

PingsAnswered ==
    \A n \in 1..(2 * MaxMessages) : SentToConsumer(n, "ping") ~> PongPending(n)

\* C35: while the agent's consumer runs and is scheduled fairly, every
\* "tell" sent successfully to the agent is eventually in its backup log
\* under the message's id, and every "ping" of a registered sender
\* eventually has a "pong" with response_to the ping's id in that sender's
\* mailbox.
C35_Consumed ==
    /\ \A n \in 1..(2 * MaxMessages) :
           SentToConsumer(n, "tell") ~> InBackupLog(n)
    /\ \A n \in 1..(2 * MaxMessages) :
           SentToConsumer(n, "ping") ~> PongPending(n)

(***************************************************************************)
(* SpecStop: thread t1 starts and stops the background consumer of agent   *)
(* a_1 while "tell" and "ping" messages are sent to the agent and the      *)
(* consumer handles them.  The caller of stop_background_processing is     *)
(* scheduled fairly; a consumer gets the agent lock it waits for when the  *)
(* lock is released again and again (strong fairness).                     *)
(***************************************************************************)
InitStop ==
    /\ BusInit({MaxQueueSize})
    /\ ThreadsIdle

NextStop ==
    \/ AgentVal_init("a", 1)
    \/ register_agent_by("t3", "a2")
    \/ Exists("a_1") /\ start_background_processing("t1", "a_1")
    \/ Exists("a_1") /\ stop_bg_begin("t1", "a_1", "stop_background_processing")
    \/ stop_bg_join("t1")
    \/ /\ _message_counter < MaxMessages
       /\ \E message_type \in {"tell", "ping"} :
              send_message_by("t3", "a2", "a_1", message_type)
    \/ \E k \in Consumers : is_alive(k) /\ ConsumerSteps(k)

SpecStop ==
    /\ InitStop
    /\ [][NextStop]_vars
    /\ WF_vars(stop_bg_join("t1"))
    /\ \A k \in Consumers : SF_vars(ConsumerSteps(k))

\* consumer k is in its loop and the stop flag of its agent is set
Stopping(k) == is_alive(k) /\ _stop_processing[Self(k)]

\* C36: stop_background_processing always returns, also while the consumer
\* waits for the agent lock that the stopping thread holds; it returns True
\* with the stop flag set, and a consumer whose stop flag is set makes no
\* further receive_message call, keeps the flag set for as long as it lives
\* and ends.
C36_StopReturns ==
    /\ [][/\ (stop_bg_join("t1") /\ call'.ret = TRUE) =>
                 _stop_processing'["a_1"] = TRUE
          /\ \A k \in Consumers :
                 Stopping(k) =>
                     /\ pc'[k] = "bp_receive" => pc[k] = "bp_receive"
                     /\ is_alive(k)' => Stopping(k)'
         ]_vars
    /\ (pc["t1"] = "stop_bg_join") ~> (pc["t1"] = "idle")
    /\ \A k \in Consumers : Stopping(k) ~> ~is_alive(k)

\* C36 witness: stop_background_processing returned True after its join
\* timed out: the consumer had received a message and waited for the agent
\* lock, and is still about to handle the message.
C36_Witness ==
    /\ call.op = "stop_background_processing"
    /\ call.ret = TRUE
    /\ pc["k1"] = "pbm_begin"
    /\ _stop_processing["a_1"]

\* C37: the id of an agent under construction is the id of no agent
\* constructed before it.  Every message of the history of SpecIds is a
\* tell to an agent constructed earlier, so the new agent's id is the
\* recipient of no message of the history.
C37_IdNeverReused ==
    [][\A name \in Names, address \in Addresses :
          AgentVal_init(name, address) =>
              \A m \in Range(_message_history) :
                  messages[m].recipient # AgentId(name, address)
      ]_vars

(***************************************************************************)
(* SpecIf: programs of one if statement, with and without an else-list,    *)
(* over conditions of every kind of value, followed by a print.            *)
(***************************************************************************)
Literals ==
    {StringValue(""), StringValue("yes"), NumberValue(0), NumberValue(1),
     BooleanValue(FALSE), BooleanValue(TRUE)}

Conditions == Literals \cup {BooleanExpression(left) : left \in Literals}

IfPrograms ==
    {<<IfElseStatement(condition, then_statements, else_statements),
       PrintStatement(name)>> :
        condition \in Conditions,
        then_statements \in {<<AssignmentStatement("x")>>},
        else_statements \in {<<>>, <<AssignmentStatement("y")>>},
        name \in {"x", "y"}}

InitIf ==
    /\ BusInit({MaxQueueSize})
    /\ Interpreting(IfPrograms)

NextIf == execute_statement("t1")

SpecIf == InitIf /\ [][NextIf]_vars

\* the interpreter is at an if statement
AtIf == interpreter.stack # <<>> /\ Current.type = "IfStatement"

\* the statements the interpreter has entered, if it has entered a list
Entered(stack) ==
    IF stack = <<>> THEN <<>> ELSE stack[Len(stack)].statements

\* C38: an if statement enters its then-list when the condition value is
\* true and its else-list, if it has one, otherwise, and nothing else; a
\* value that is no boolean counts as a one-operand boolean expression
\* counts it: the empty string and the number 0 are false.
C38_IfBranch ==
    [][AtIf /\ execute_statement("t1") =>
          LET value == evaluate_expression(Current.condition)
              true == CASE value[1] = "string" -> value[2] # ""
                        [] value[1] = "number" -> value[2] # 0
                        [] value[1] = "boolean" -> value[2]
              branch == IF true THEN Current.then_statements
                        ELSE Current.else_statements
          IN  IF branch = <<>>
              THEN interpreter'.stack = NextStatement(interpreter.stack)
              ELSE /\ Len(interpreter'.stack) = Len(interpreter.stack) + 1
                   /\ Entered(interpreter'.stack) = branch
      ]_vars

(***************************************************************************)
(* SpecCache: one thread caches the registry's WebSearch tool in agent     *)
(* a_1 with register_with_tool_registry, asks has_tool, runs execute_tool  *)
(* and remove_tool, and disables, enables, unregisters and registers the   *)
(* tool in the registry, one call after the other.                         *)
(***************************************************************************)
CacheBounded ==
    /\ instance_counter < MaxInstances
    /\ \A name \in DOMAIN _tools : _tools[name].usage_count < MaxInstances
    /\ \A tool \in DOMAIN call_count : call_count[tool] < MaxInstances

InitCache ==
    /\ BusInit({MaxQueueSize})
    /\ ThreadsIdle

CacheCalls(t, self) ==
    \/ CacheBounded /\ rwtr_begin(t, self, "WebSearch")
    \/ has_tool_begin(t, self, "has_tool", "WebSearch", TRUE, None)
    \/ /\ CacheBounded
       /\ \E args_ok \in BOOLEAN :
              has_tool_begin(t, self, "execute_tool", "WebSearch", args_ok,
                             None)
    \/ remove_tool(t, self, "WebSearch")

CacheSteps(t) ==
    \/ rwtr_available(t)
    \/ rwtr_get(t)
    \/ RegistrySteps(t)

NextCache ==
    \/ AgentVal_init("a", 1)
    \/ Exists("a_1") /\ CacheCalls("t1", "a_1")
    \/ CacheSteps("t1")
    \/ disable_tool("t1", "WebSearch")
    \/ enable_tool("t1", "WebSearch")
    \/ unregister_tool("t1", "WebSearch")
    \/ register_tool("t1", "WebSearch", AVAILABLE_TOOLS["WebSearch"])

SpecCache == InitCache /\ [][NextCache]_vars

\* agent a_1 holds an instance of WebSearch in its assigned tools
Cached == Exists("a_1") /\ "WebSearch" \in DOMAIN assigned_tools["a_1"]

\* C39: while the agent holds the instance that register_with_tool_registry
\* cached, has_tool returns True and execute_tool is not refused and
\* executes that instance, with the tool disabled or unregistered in the
\* registry too; the registry's calls leave the cached instance alone and
\* only remove_tool takes it away.
C39_CachedToolKept ==
    [][Cached =>
          /\ has_tool_begin("t1", "a_1", "has_tool", "WebSearch", TRUE, None)
                 => call'.op = "has_tool" /\ call'.ret = TRUE
          /\ (\E args_ok \in BOOLEAN :
                  has_tool_begin("t1", "a_1", "execute_tool", "WebSearch",
                                 args_ok, None))
                 => pc'["t1"] = "et_begin"
          /\ et_execute("t1")
                 => /\ pc'["t1"] = "tool_execute"
                    /\ loc'["t1"].tool_instance
                           = Some(assigned_tools["a_1"]["WebSearch"])
          /\ IF Cached'
             THEN assigned_tools'["a_1"]["WebSearch"]
                      = assigned_tools["a_1"]["WebSearch"]
             ELSE remove_tool("t1", "a_1", "WebSearch")
      ]_vars

\* C39 witness: the tool is unregistered from the registry and the last
\* call, an execute_tool of the agent, returned: it ran the cached instance
C39_Witness ==
    /\ Cached
    /\ "WebSearch" \notin DOMAIN _tools
    /\ call.op = "execute_tool"
    /\ call.exc = None
    /\ call_count[assigned_tools["a_1"]["WebSearch"]] = 1

\* the same after a disable_tool: has_tool returned True
C39_WitnessDisabled ==
    /\ Cached
    /\ "WebSearch" \in DOMAIN _tools
    /\ ~_tools["WebSearch"].enabled
    /\ call.op = "has_tool"
    /\ call.ret = TRUE

(***************************************************************************)
(* SpecUsage: one thread runs execute_tool("WebSearch", query) of agent    *)
(* a_1, every time with arguments the tool accepts, before and after it    *)
(* cached the tool with register_with_tool_registry; the tool stays        *)
(* registered, so its usage_count is never reset.                          *)
(***************************************************************************)
InitUsage ==
    /\ BusInit({MaxQueueSize})
    /\ ThreadsIdle

UsageCalls(t, self) ==
    \/ CacheBounded /\ rwtr_begin(t, self, "WebSearch")
    \/ /\ CacheBounded
       /\ has_tool_begin(t, self, "execute_tool", "WebSearch", TRUE, None)
    \/ remove_tool(t, self, "WebSearch")

NextUsage ==
    \/ AgentVal_init("a", 1)
    \/ Exists("a_1") /\ UsageCalls("t1", "a_1")
    \/ CacheSteps("t1")
    \/ disable_tool("t1", "WebSearch")
    \/ enable_tool("t1", "WebSearch")

SpecUsage == InitUsage /\ [][NextUsage]_vars

\* the executions made so far of the instances of a tool class
RECURSIVE Executions(_, _)
Executions(tool_class, tools) ==
    IF tools = {} THEN 0
    ELSE LET tool == CHOOSE x \in tools : TRUE
         IN  (IF tool.tool_class = tool_class THEN call_count[tool] ELSE 0)
                 + Executions(tool_class, tools \ {tool})

\* C40: between the calls, usage_count of WebSearch is the number of
\* executions of WebSearch instances made by execute_tool of the agent,
\* through the registry or through the cached copy: each successful
\* execute_tool adds exactly 1.
C40_UsageCounted ==
    pc["t1"] = "idle" =>
        _tools["WebSearch"].usage_count
            = Executions("WebSearchTool", DOMAIN call_count)

====
